---- MODULE Spec2Model ----
(***************************************************************************)
(* CSV bulk import of the dashboard: the five import modals                *)
(*   BulkOrderModal        (src/unnamed/part_001, second file)             *)
(*   BulkDepositModal      (src/components/modals/bulk-deposit-modal.tsx)  *)
(*   BulkWithdrawalModal   (src/components/modals/bulk-withdrawal-modal)   *)
(*   BulkWithdrawalModal   (src/unnamed/part_002, the writeBatch variant)  *)
(*   AgentImportModal      (src/components/team-performance/...)           *)
(* One behaviour is one modal instance running one handleImport.           *)
(*                                                                         *)
(* Text.  A CSV text is the sequence of its "\n"-separated lines, a line   *)
(* the sequence of its tokens: "," is the separator, " " one white-space   *)
(* character, every other token a run of characters holding neither.       *)
(* Numbers.  A JavaScript number is [nan |-> BOOLEAN, val |-> Int], val    *)
(* counted in hundredths (100.00 is 10000).                                *)
(***************************************************************************)
EXTENDS Integers, Sequences, FiniteSets, TLC

\* ------------------------------------------------------------------------
\* Bounds of the model
\* ------------------------------------------------------------------------

\* most data lines of an exhaustively enumerated CSV text
MaxRows == 2
\* data lines of the long texts, which reach the cooperative yields
LongLen == 11
\* data lines of the largest text given to the batched import
MaxBigRows == 1000
\* presses of the Import button in one session with a modal
MaxRuns == 2

\* records a table lists
MaxListed == 2

\* ------------------------------------------------------------------------
\* JavaScript primitives used by the handlers
\* ------------------------------------------------------------------------

\* values[k] for k past the end of the array
Undefined == "<undefined>"

Comma == ","
Space == " "

NaN == [nan |-> TRUE, val |-> 0]

Num(v) == [nan |-> FALSE, val |-> v]

isNaN(n) == n.nan

\* n <= 0 as JavaScript evaluates it: false when n is NaN
LeqZero(n) == ~n.nan /\ n.val <= 0

\* n < 0 as JavaScript evaluates it: false when n is NaN
LtZero(n) == ~n.nan /\ n.val < 0

\* Number.parseFloat: the longest numeric prefix of the string, NaN if none
parseFloat(s) ==
  CASE s = "100.00" -> Num(10000)
    [] s = "250.50" -> Num(25050)
    [] s = "50"     -> Num(5000)
    [] s = "7"      -> Num(700)
    [] s = "3.9"    -> Num(390)
    [] s = "0"      -> Num(0)
    [] s = "-5"     -> Num(-500)
    [] s = "12abc"  -> Num(1200)
    [] s = "100"    -> Num(10000)
    [] s = "250.5"  -> Num(25050)
    [] OTHER        -> NaN

\* Number.parseInt(s, 10): the longest integer prefix of the string
parseInt(s) ==
  CASE s = "100.00" -> Num(10000)
    [] s = "250.50" -> Num(25000)
    [] s = "50"     -> Num(5000)
    [] s = "7"      -> Num(700)
    [] s = "3.9"    -> Num(300)
    [] s = "0"      -> Num(0)
    [] s = "-5"     -> Num(-500)
    [] s = "12abc"  -> Num(1200)
    [] s = "100"    -> Num(10000)
    [] s = "250.5"  -> Num(25000)
    [] OTHER        -> NaN

\* String.prototype.toLowerCase on the strings of the model
toLowerCase(s) ==
  CASE s = "Shop ID"        -> "shop id"
    [] s = "Date"           -> "date"
    [] s = "AMOUNT"         -> "amount"
    [] s = "Payment Mode"   -> "payment mode"
    [] s = "Location"       -> "location"
    [] s = "PRICE"          -> "price"
    [] s = "Status"         -> "status"
    [] s = "Agent Name"     -> "agent name"
    [] s = "Added Today"    -> "added today"
    [] s = "Monthly Added"  -> "monthly added"
    [] s = "TOTAL DEPOSITS" -> "total deposits"
    [] s = "Total Deposits" -> "total deposits"
    [] s = "Open Accounts"  -> "open accounts"
    [] s = "Commission Rate" -> "commission rate"
    [] s = "Commission Amount" -> "commission amount"
    [] s = "Notes"          -> "notes"
    [] s = "Crypto"         -> "crypto"
    [] s = "Online Banking" -> "online banking"
    [] s = "Ewallet"        -> "ewallet"
    [] s = "BTC"            -> "btc"
    [] s = "Bitcoin"        -> "bitcoin"
    [] s = "E-Wallet"       -> "e-wallet"
    [] s = "Unknown"        -> "unknown"
    [] s = "Wire"           -> "wire"
    [] s = "Pending"        -> "pending"
    [] s = "Completed"      -> "completed"
    [] s = "Shipped"        -> "shipped"
    [] OTHER                -> s

\* the value format(new Date(), "yyyy-MM-dd") returns during the run
Today == "<today>"

\* new Date(s) and format(., "yyyy-MM-dd"): the ISO text of the date the
\* free-form parse accepts, "" when getTime() is NaN
NewDate(s) ==
  CASE s = "2023-01-01" -> "2023-01-01"
    [] s = "03/15/2025" -> "2025-03-15"
    [] OTHER            -> ""

\* date-fns parse(s, "MM/dd/yyyy", new Date()) and format(., "yyyy-MM-dd")
ParseMDY(s) ==
  CASE s = "03/15/2025" -> "2025-03-15"
    [] OTHER            -> ""

\* Array.prototype.indexOf, 1-based; 0 when absent
RECURSIVE IndexFrom(_, _, _)
IndexFrom(arr, x, k) ==
  IF k > Len(arr) THEN 0
  ELSE IF arr[k] = x THEN k ELSE IndexFrom(arr, x, k + 1)

indexOf(arr, x) == IndexFrom(arr, x, 1)

includes(arr, x) == \E k \in 1..Len(arr) : arr[k] = x

\* arr[k - 1] of JavaScript, for the 1-based k
At(arr, k) == IF k \in 1..Len(arr) THEN arr[k] ELSE Undefined

\* Array.prototype.filter
RECURSIVE FilterMissing(_, _)
FilterMissing(fields, header) ==
  IF fields = <<>> THEN <<>>
  ELSE (IF includes(header, Head(fields)) THEN <<>> ELSE <<Head(fields)>>)
       \o FilterMissing(Tail(fields), header)

\* Array.prototype.join(", ")
RECURSIVE JoinComma(_)
JoinComma(arr) ==
  IF arr = <<>> THEN ""
  ELSE IF Len(arr) = 1 THEN arr[1]
  ELSE arr[1] \o ", " \o JoinComma(Tail(arr))

\* ------------------------------------------------------------------------
\* Text: trim and split
\* ------------------------------------------------------------------------

IsBlankLine(line) == \A k \in 1..Len(line) : line[k] = Space

\* String.prototype.trim on one line
TrimLine(line) ==
  IF IsBlankLine(line) THEN <<>>
  ELSE LET first == CHOOSE k \in 1..Len(line) :
                      line[k] # Space /\ \A j \in 1..(k - 1) : line[j] = Space
           last  == CHOOSE k \in 1..Len(line) :
                      line[k] # Space /\ \A j \in (k + 1)..Len(line) : line[j] = Space
       IN SubSeq(line, first, last)

TrimLeft(line) ==
  IF IsBlankLine(line) THEN <<>>
  ELSE LET first == CHOOSE k \in 1..Len(line) :
                      line[k] # Space /\ \A j \in 1..(k - 1) : line[j] = Space
       IN SubSeq(line, first, Len(line))

TrimRight(line) ==
  IF IsBlankLine(line) THEN <<>>
  ELSE LET last == CHOOSE k \in 1..Len(line) :
                     line[k] # Space /\ \A j \in (k + 1)..Len(line) : line[j] = Space
       IN SubSeq(line, 1, last)

\* !csvData.trim()
IsBlankText(text) == \A k \in 1..Len(text) : IsBlankLine(text[k])

\* a split of the text as typed, without csvData.trim(); C11 tells it from
\* TrimSplitLines
SplitLinesUntrimmed(text) == IF text = <<>> THEN << <<>> >> ELSE text

\* csvData.trim().split("\n"): the lines from the first to the last one
\* that is not blank, the first trimmed on the left, the last on the right
TrimSplitLines(text) ==
  IF IsBlankText(text) THEN << <<>> >>
  ELSE LET first == CHOOSE k \in 1..Len(text) :
                      ~IsBlankLine(text[k]) /\ \A j \in 1..(k - 1) : IsBlankLine(text[j])
           last  == CHOOSE k \in 1..Len(text) :
                      ~IsBlankLine(text[k]) /\ \A j \in (k + 1)..Len(text) : IsBlankLine(text[j])
       IN [k \in 1..(last - first + 1) |->
             LET l == text[first + k - 1]
             IN IF first = last THEN TrimLine(l)
                ELSE IF k = 1 THEN TrimLeft(l)
                ELSE IF k = last - first + 1 THEN TrimRight(l)
                ELSE l]

\* the string a run of tokens spells
RECURSIVE Concat(_)
Concat(toks) == IF toks = <<>> THEN "" ELSE Head(toks) \o Concat(Tail(toks))

\* line.split(","): the runs of tokens between the commas
RECURSIVE SplitFrom(_, _, _)
SplitFrom(line, k, cur) ==
  IF k > Len(line) THEN <<cur>>
  ELSE IF line[k] = Comma THEN <<cur>> \o SplitFrom(line, k + 1, <<>>)
  ELSE SplitFrom(line, k + 1, Append(cur, line[k]))

split(line) == SplitFrom(line, 1, <<>>)

\* lines[i].split(",").map((v) => v.trim())
SplitTrim(line) ==
  LET cells == split(line)
  IN [k \in 1..Len(cells) |-> Concat(TrimLine(cells[k]))]

\* lines[0].split(",").map((h) => h.trim().toLowerCase())
ParseHeader(line) ==
  LET cells == SplitTrim(line)
  IN [k \in 1..Len(cells) |-> toLowerCase(cells[k])]

\* ------------------------------------------------------------------------
\* The five import flows
\* ------------------------------------------------------------------------

Orders == "orders"
Deposits == "deposits"
Withdrawals == "withdrawals"
WithdrawalsBatched == "withdrawalsBatched"
Agents == "agents"

Flows == {Orders, Deposits, Withdrawals, WithdrawalsBatched, Agents}

\* the table whose menu opens the import modal of flow f
TableOf(f) ==
  IF f = Orders THEN "orders"
  ELSE IF f = Agents THEN "agents"
  ELSE IF f = Deposits THEN "deposits"
  ELSE "withdrawals"

\* const requiredFields = [...]
requiredFields(f) ==
  CASE f = Orders -> <<"shop id", "date", "location", "price", "status">>
    [] f = Agents -> <<"agent name", "added today", "monthly added", "total deposits">>
    [] OTHER      -> <<"shop id", "date", "amount", "payment mode">>

\* a filter that stops at the first column the header lacks; C2 tells it
\* from missingFields
missingFieldsFirstOnly(f, header) ==
  LET missing == FilterMissing(requiredFields(f), header)
  IN IF missing = <<>> THEN <<>> ELSE <<missing[1]>>

\* const missingFields = requiredFields.filter((field) => !header.includes(field))
missingFields(f, header) == FilterMissing(requiredFields(f), header)

\* Firebase has a limit of 500 operations per batch
BATCH_SIZE == 450

\* if (i % 10 === 0) await ...: the period of the cooperative yield, 0 for
\* the batched import, whose row loop never yields
YieldEvery(f) ==
  CASE f = Agents             -> 5
    [] f = WithdrawalsBatched -> 0
    [] OTHER                  -> 10

\* clients.find((c) => c.shopId === shopId): the first match, <<>> if none
FindClient(cl, shopId) ==
  LET k == CHOOSE k \in 0..Len(cl) :
             /\ k # 0 => cl[k].shopId = shopId
             /\ \A j \in 1..(IF k = 0 THEN Len(cl) ELSE k - 1) : cl[j].shopId # shopId
  IN IF k = 0 THEN <<>> ELSE <<cl[k]>>

\* x || fallback for a string x
OrElse(x, fallback) == IF x = "" \/ x = Undefined THEN fallback ELSE x

PaymentModes == <<"Crypto", "Online Banking", "Ewallet">>

OrderStatuses == <<"Pending", "Processing", "Completed">>

\* the outcomes of one pass through the loop body for a line that is not blank
Reject == [kind |-> "reject"]
Throw == [kind |-> "throw"]
Accept(rec) == [kind |-> "accept", rec |-> rec]

\* the agent import's threshold put on an amount; C18 tells it from
\* AmountRejected
AmountRejectedBelowZero(amount) == isNaN(amount) \/ LtZero(amount)

\* a row check without the isNaN test; C3 tells it from AmountRejected
AmountRejectedSignOnly(amount) == LeqZero(amount)

\* the row checks on an amount or a price: isNaN(amount) || amount <= 0
AmountRejected(amount) == isNaN(amount) \/ LeqZero(amount)

\* the row checks of the agent import on its three numeric cells
AgentNumbersRejected(addedToday, monthlyAdded, totalDeposits) ==
  \/ isNaN(addedToday) \/ LtZero(addedToday)
  \/ isNaN(monthlyAdded) \/ LtZero(monthlyAdded)
  \/ isNaN(totalDeposits) \/ LtZero(totalDeposits)

\* a synonym table without "btc" and "e-wallet"; C7 tells it from
\* NormalizeMode
NormalizeModeShort(normalizedMode) ==
  IF includes(<<"crypto", "cryptocurrency", "bitcoin", "eth">>, normalizedMode)
    THEN "Crypto"
  ELSE IF includes(<<"online", "online banking", "internet banking">>, normalizedMode)
    THEN "Online Banking"
  ELSE IF includes(<<"ewallet", "digital wallet", "wallet">>, normalizedMode)
    THEN "Ewallet"
  ELSE ""

\* the synonym table of the withdrawal imports, applied to
\* values[paymentModeIndex].trim().toLowerCase(); "" when no synonym matches
NormalizeMode(normalizedMode) ==
  IF includes(<<"crypto", "cryptocurrency", "bitcoin", "eth", "btc">>, normalizedMode)
    THEN "Crypto"
  ELSE IF includes(<<"online", "online banking", "internet banking">>, normalizedMode)
    THEN "Online Banking"
  ELSE IF includes(<<"ewallet", "e-wallet", "digital wallet", "wallet">>, normalizedMode)
    THEN "Ewallet"
  ELSE ""

\* the payment-mode step of the withdrawal imports: the canonical label, ""
\* for a rejected cell; reading .trim() of undefined throws
WithdrawalMode(cell) ==
  IF includes(PaymentModes, cell) THEN [kind |-> "mode", mode |-> cell]
  ELSE IF cell = Undefined THEN Throw
  ELSE [kind |-> "mode", mode |-> NormalizeMode(toLowerCase(cell))]

\* the payment-mode step of the deposit import: "" for a rejected cell
DepositMode(cell) == IF includes(PaymentModes, cell) THEN cell ELSE ""

\* BulkOrderModal.handleImport, the loop body; id is what generateOrderId()
\* returns when it is reached
OrderRow(values, header, cl, id) ==
  LET shopId == At(values, indexOf(header, "shop id"))
      client == FindClient(cl, shopId)
      orderDate == At(values, indexOf(header, "date"))
      processedDate == IF orderDate = "" \/ orderDate = Undefined THEN "<null>" ELSE orderDate
      price == parseFloat(At(values, indexOf(header, "price")))
      status == At(values, indexOf(header, "status"))
  IN IF client = <<>> THEN Reject
     ELSE IF AmountRejected(price) THEN Reject
     ELSE IF ~includes(OrderStatuses, status) THEN Reject
     ELSE Accept([id |-> id, shopId |-> shopId, clientName |-> client[1].clientName,
                  agent |-> client[1].agent, date |-> processedDate,
                  location |-> At(values, indexOf(header, "location")),
                  amount |-> price, status |-> status])

\* BulkDepositModal.handleImport, the loop body
DepositRow(values, header, cl, id) ==
  LET shopId == At(values, indexOf(header, "shop id"))
      client == FindClient(cl, shopId)
      parsed == ParseMDY(At(values, indexOf(header, "date")))
      depositDate == IF parsed = "" THEN Today ELSE parsed
      amount == parseFloat(At(values, indexOf(header, "amount")))
      paymentMode == DepositMode(At(values, indexOf(header, "payment mode")))
  IN IF client = <<>> THEN Reject
     ELSE IF AmountRejected(amount) THEN Reject
     ELSE IF paymentMode = "" THEN Reject
     ELSE Accept([id |-> id, shopId |-> shopId, clientName |-> client[1].clientName,
                  agent |-> client[1].agent, date |-> depositDate,
                  amount |-> amount, paymentMode |-> paymentMode])

\* placeholders left blank; C8 and C9 tell them from WithdrawalClientName
\* and WithdrawalAgent
WithdrawalClientNameBlank(client) ==
  IF client = <<>> THEN "" ELSE client[1].clientName

WithdrawalAgentBlank(client) ==
  IF client = <<>> THEN "" ELSE client[1].agent

\* the client name and agent a withdrawal import gives a row
WithdrawalClientName(client) ==
  IF client = <<>> THEN "Unknown Client" ELSE OrElse(client[1].clientName, "Unknown Client")

WithdrawalAgent(client) ==
  IF client = <<>> THEN "Unknown Agent" ELSE OrElse(client[1].agent, "Unknown Agent")

\* BulkWithdrawalModal.handleImport (addWithdrawal per row), the loop body
WithdrawalRow(values, header, cl, id) ==
  LET shopId == At(values, indexOf(header, "shop id"))
      client == FindClient(cl, shopId)
      parsed == NewDate(At(values, indexOf(header, "date")))
      withdrawalDate == IF parsed = "" THEN Today ELSE parsed
      amount == parseFloat(At(values, indexOf(header, "amount")))
      mode == WithdrawalMode(At(values, indexOf(header, "payment mode")))
  IN IF AmountRejected(amount) THEN Reject
     ELSE IF mode.kind = "throw" THEN Throw
     ELSE IF mode.mode = "" THEN Reject
     ELSE Accept([id |-> id, shopId |-> shopId,
                  clientName |-> WithdrawalClientName(client),
                  agent |-> WithdrawalAgent(client), date |-> withdrawalDate,
                  amount |-> amount, paymentMode |-> mode.mode])

\* BulkWithdrawalModal.handleImport (writeBatch), the loop body
WithdrawalBatchedRow(values, header, cl, id) ==
  LET shopId == At(values, indexOf(header, "shop id"))
      client == FindClient(cl, shopId)
      iso == NewDate(At(values, indexOf(header, "date")))
      parsedDate == IF iso = "" THEN Today ELSE iso
      amount == parseFloat(At(values, indexOf(header, "amount")))
      mode == WithdrawalMode(At(values, indexOf(header, "payment mode")))
  IN IF Len(values) < 4 THEN Reject
     ELSE IF AmountRejected(amount) THEN Reject
     ELSE IF mode.kind = "throw" THEN Throw
     ELSE IF mode.mode = "" THEN Reject
     ELSE Accept([id |-> id, shopId |-> shopId,
                  clientName |-> WithdrawalClientName(client),
                  agent |-> WithdrawalAgent(client), date |-> parsedDate,
                  amount |-> amount, paymentMode |-> mode.mode])

\* AgentImportModal.handleImport, the loop body; addAgent is given no id
AgentRow(values, header) ==
  LET name == At(values, indexOf(header, "agent name"))
      addedToday == parseInt(At(values, indexOf(header, "added today")))
      monthlyAdded == parseInt(At(values, indexOf(header, "monthly added")))
      totalDeposits == parseFloat(At(values, indexOf(header, "total deposits")))
  IN IF name = "" \/ name = Undefined THEN Reject
     ELSE IF AgentNumbersRejected(addedToday, monthlyAdded, totalDeposits) THEN Reject
     ELSE Accept([id |-> 0, name |-> name, addedToday |-> addedToday,
                  monthlyAdded |-> monthlyAdded, openAccounts |-> 0,
                  totalDeposits |-> totalDeposits])

\* a loop body that reads the cells by their position in requiredFields,
\* whatever the header says; C19 tells it from RowResult
RowResultByPosition(f, line, header, cl, id) ==
  LET values == SplitTrim(line)
      fixed == requiredFields(f)
  IN CASE f = Orders             -> OrderRow(values, fixed, cl, id)
       [] f = Deposits           -> DepositRow(values, fixed, cl, id)
       [] f = Withdrawals        -> WithdrawalRow(values, fixed, cl, id)
       [] f = WithdrawalsBatched -> WithdrawalBatchedRow(values, fixed, cl, id)
       [] f = Agents             -> AgentRow(values, fixed)

\* the loop body of flow f on one line that is not blank
RowResult(f, line, header, cl, id) ==
  LET values == SplitTrim(line)
  IN CASE f = Orders             -> OrderRow(values, header, cl, id)
       [] f = Deposits           -> DepositRow(values, header, cl, id)
       [] f = Withdrawals        -> WithdrawalRow(values, header, cl, id)
       [] f = WithdrawalsBatched -> WithdrawalBatchedRow(values, header, cl, id)
       [] f = Agents             -> AgentRow(values, header)

\* ------------------------------------------------------------------------
\* The collaborators: the client context and the document store
\* ------------------------------------------------------------------------

Max(S) == CHOOSE x \in S : \A y \in S : y <= x

\* generateOrderId / generateDepositId / generateWithdrawalId: the highest
\* numeric suffix in the collection, plus one
GenerateId(st) == Max({r.id : r \in st} \cup {0}) + 1

\* addOrder / addDeposit / addWithdrawal: the record joins the in-memory
\* collection at once
AddRecord(st, rec) == st \cup {rec}

\* addAgent: the context gives the new agent its identifier
AddAgent(st, rec) == st \cup {[rec EXCEPT !.id = GenerateId(st)]}

\* batch.commit of batch.set(doc(db, "withdrawals", withdrawalId), ...) calls:
\* a later set of the same document replaces an earlier one
CommitDocs(st, recs) ==
  LET ids == {recs[k].id : k \in 1..Len(recs)}
      lastOf == {k \in 1..Len(recs) : \A j \in (k + 1)..Len(recs) : recs[j].id # recs[k].id}
  IN {r \in st : r.id \notin ids} \cup {recs[k] : k \in lastOf}

\* ------------------------------------------------------------------------
\* State
\* ------------------------------------------------------------------------

VARIABLES
  flow,           \* which of the five modals this is
  clients,        \* useClientContext().clients
  store,          \* the collection the modal imports into
  csvData,        \* useState("")
  error,          \* useState("")
  success,        \* useState(false)
  successCount,   \* useState(0)
  errorCount,     \* useState(0)
  isProcessing,   \* useState(false)
  progress,       \* useState(0)
  pc,             \* where handleImport stands
  lines,          \* const lines
  header,         \* const header
  i,              \* the loop variable of the row loop
  nSuccess,       \* let successCount
  nError,         \* let errorCount
  allWithdrawals, \* const allWithdrawals (batched import)
  offset,         \* the loop variable of the batch loop
  calls,          \* every record handed to addX or batch.set, in call order
  generated,      \* every identifier generateXId() returned, in call order
  batches,        \* every batch built, with what became of its commit
  runs,           \* how many times handleImport was called
  runClients,     \* the clients of the render whose handleImport is running
  isOpen,         \* the modal is mounted and its dialog open
  table,          \* the table component on the page
  isViewer,       \* useAuth().isViewer
  isAdmin,        \* useAuth().isAdmin
  isModalOpen,    \* useState(false): the add / edit modal
  isBulkModalOpen,         \* useState(false): the bulk import modal
  isExportModalOpen,       \* useState(false)
  isRegistrationModalOpen, \* useState(false): agent table
  isImportModalOpen,       \* useState(false): agent table
  modalMode,      \* useState("add")
  selected,       \* selectedOrder / selectedWithdrawal: an id, 0 for null
  listed,         \* the ids of the records the table shows
  deleted,        \* every id handed to deleteOrder / deleteWithdrawal / deleteAgent
  orders,         \* useClientContext().orders / .withdrawals, as the table receives them
  filteredOrders, \* useState([]): filteredOrders / filteredWithdrawals
  searchTerm,     \* useState("")
  statusFilter,   \* useState("all"): statusFilter / paymentModeFilter
  agentFilter,    \* useState("all")
  sortField,      \* useState("date")
  sortDirection,  \* useState("desc")
  currentPage,    \* useState(1)
  itemsPerPage,   \* useState(10)
  changes,        \* how many times the context changed the list
  formWithdrawalId, \* WithdrawalModal useState(""): withdrawalId, 0 while unset
  formShopId,     \* WithdrawalModal useState(""): shopId
  formClientName, \* WithdrawalModal useState(""): clientName
  formAgent,      \* WithdrawalModal useState(""): agent
  formDate,       \* WithdrawalModal useState(today): date
  formAmount,     \* WithdrawalModal useState(0): amount
  formPaymentMode, \* WithdrawalModal useState("Crypto"): paymentMode
  shopIdError,    \* WithdrawalModal useState("")
  amountError,    \* WithdrawalModal useState("")
  isSubmitting,   \* WithdrawalModal useState(false)
  persisted,      \* every call of addWithdrawal / updateWithdrawal by the modal
  editingCell,    \* AgentTable useState(null): <<>> or <<[id, field]>>
  editValue,      \* AgentTable useState("")
  updates,        \* every record handed to updateAgent by the table
  exported        \* the agents of the rows handleExportCsv wrote, in row order

tableVars == <<table, isViewer, isAdmin, isModalOpen, isBulkModalOpen, isExportModalOpen,
               isRegistrationModalOpen, isImportModalOpen, modalMode, selected, listed,
               deleted>>

importVars == <<flow, clients, store, csvData, error, success, successCount, errorCount,
          isProcessing, progress, pc, lines, header, i, nSuccess, nError,
          allWithdrawals, offset, calls, generated, batches, runs, runClients, isOpen>>

viewVars == <<orders, filteredOrders, searchTerm, statusFilter, agentFilter, sortField,
              sortDirection, currentPage, itemsPerPage, changes>>

formVars == <<formWithdrawalId, formShopId, formClientName, formAgent, formDate, formAmount,
              formPaymentMode, shopIdError, amountError, isSubmitting, persisted>>

agentVars == <<editingCell, editValue, updates, exported>>

pageVars == <<viewVars, formVars, agentVars>>

vars == <<importVars, tableVars, pageVars>>

uiVars == <<error, success, successCount, errorCount, isProcessing, progress>>

\* positions of handleImport
\*   idle        not called yet
\*   rows        in the row loop, about to run the body for line i
\*   yield       awaiting the setTimeout promise after line i - 1
\*   finish      the row loop has ended
\*   commit      awaiting batch.commit()
\*   done        returned after reporting the counts
\*   structural  returned early: fewer than two lines, or missing columns
\*   caught      returned from the catch block
Running == pc \in {"rows", "yield", "finish", "commit"}

Ended == pc \in {"done", "structural", "caught"}

\* the number of data lines, lines.length - 1
TotalDataRows == Len(lines) - 1

\* Math.round((i / (lines.length - 1)) * 100)
RoundPercent(k, total) == (200 * k + total) \div (2 * total)

\* ------------------------------------------------------------------------
\* The inputs: CSV texts, client lists and collections
\* ------------------------------------------------------------------------

Row4(a, b, c, d) == <<a, b, c, d, "n">>

Row5(a, b, c, d, e) == <<a, b, c, d, e, "n">>

\* the rows of each flow, cell k under column k of requiredFields, the last
\* cell under the extra column "notes"
RowKinds(f) ==
  CASE f = Orders ->
         { Row5("S1", "2023-01-01", "New York", "250.50", "Completed"),
           Row5("S2", "bad", "Paris", "-5", "Pending"),
           Row5("S1", "", "Paris", "50", "Shipped"),
           Row5("S1", "bad", "Paris", "0", "Pending"),
           Row5("S1", "2023-01-01", "Paris", "abc", "Completed"),
           Row5("S1", "", "Paris", "12abc", "Pending"),
           Row5("S1", "bad", "Rome", "250.50", "Pending") }
    [] f = Agents ->
         { Row4("Alice", "7", "50", "100.00"),
           Row4("Bob", "0", "0", "0"),
           Row4("", "7", "50", "100.00"),
           Row4("Carol", "-5", "50", "100.00"),
           Row4("Dave", "3.9", "7", "abc"),
           Row4("Eve", "3.9", "7", "250.50"),
           Row4("Alice", "7", "50", "-5") }
    [] OTHER ->
         { Row4("S1", "2023-01-01", "100.00", "Crypto"),
           Row4("S2", "bad", "-5", "Unknown"),
           Row4("S2", "bad", "50", "btc"),
           Row4("S1", "03/15/2025", "0", "Ewallet"),
           Row4("S1", "03/15/2025", "abc", "Online Banking"),
           Row4("S1", "03/15/2025", "12abc", "e-wallet"),
           Row4("S1", "2023-01-01", "250.50", "BTC"),
           Row4("S3", "2023-01-01", "100.00", "Wire") }

\* the row every flow accepts when S1 is a client
GoodRow(f) ==
  CASE f = Orders -> Row5("S1", "2023-01-01", "New York", "250.50", "Completed")
    [] f = Agents -> Row4("Alice", "7", "50", "100.00")
    [] OTHER      -> Row4("S1", "2023-01-01", "100.00", "Crypto")

\* a row every flow rejects
BadRow(f) ==
  CASE f = Orders -> Row5("S2", "bad", "Paris", "-5", "Pending")
    [] f = Agents -> Row4("Carol", "-5", "50", "100.00")
    [] OTHER      -> Row4("S2", "bad", "-5", "Unknown")

\* a line kind: a row, the number of cells cut from its end, or a blank line
LineKinds(f) ==
  {[row |-> r, cut |-> 0, blank |-> FALSE] : r \in RowKinds(f)}
  \cup {[row |-> GoodRow(f), cut |-> 1, blank |-> FALSE],
        [row |-> GoodRow(f), cut |-> 0, blank |-> TRUE]}

\* the column layouts: each names, per header cell, the column it holds
\* (0: the extra column "notes")
Layouts(f) ==
  LET n == Len(requiredFields(f))
  IN { [cols |-> [k \in 1..n |-> k], fancy |-> FALSE],
       [cols |-> [k \in 1..n |-> n + 1 - k], fancy |-> TRUE],
       [cols |-> [k \in 1..(n + 1) |-> k - 1], fancy |-> FALSE] }

\* layouts whose header lacks required columns: the last but one (amount,
\* price, monthly added); the first and the last
LackingLayouts(f) ==
  LET n == Len(requiredFields(f))
  IN { [cols |-> [k \in 1..(n - 1) |-> IF k = n - 1 THEN n ELSE k], fancy |-> FALSE],
       [cols |-> [k \in 1..(n - 2) |-> k + 1], fancy |-> TRUE] }

\* a header name as a user may type it
Typed(name) ==
  CASE name = "shop id"        -> "Shop ID"
    [] name = "date"           -> "Date"
    [] name = "amount"         -> "AMOUNT"
    [] name = "payment mode"   -> "Payment Mode"
    [] name = "location"       -> "Location"
    [] name = "price"          -> "PRICE"
    [] name = "status"         -> "Status"
    [] name = "agent name"     -> "Agent Name"
    [] name = "added today"    -> "Added Today"
    [] name = "monthly added"  -> "Monthly Added"
    [] name = "total deposits" -> "TOTAL DEPOSITS"
    [] OTHER                   -> "Notes"

ColName(f, c) == IF c = 0 THEN "notes" ELSE requiredFields(f)[c]

\* the tokens of one cell
CellTokens(str, fancy) ==
  IF fancy THEN (IF str = "" THEN <<Space>> ELSE <<Space, str, Space>>)
  ELSE (IF str = "" THEN <<>> ELSE <<str>>)

RECURSIVE JoinCells(_)
JoinCells(cells) ==
  IF cells = <<>> THEN <<>>
  ELSE IF Len(cells) = 1 THEN cells[1]
  ELSE cells[1] \o <<Comma>> \o JoinCells(Tail(cells))

HeaderLine(f, lay) ==
  JoinCells([k \in 1..Len(lay.cols) |->
               CellTokens(IF lay.fancy THEN Typed(ColName(f, lay.cols[k]))
                          ELSE ColName(f, lay.cols[k]), lay.fancy)])

DataLine(f, lay, kind) ==
  IF kind.blank THEN <<Space>>
  ELSE JoinCells([k \in 1..(Len(lay.cols) - kind.cut) |->
                    CellTokens(kind.row[IF lay.cols[k] = 0 THEN Len(kind.row)
                                        ELSE lay.cols[k]], lay.fancy)])

\* the text of a header and data lines; a fancy text is framed by blank lines
Text(f, lay, kinds) ==
  LET body == <<HeaderLine(f, lay)>> \o [k \in 1..Len(kinds) |-> DataLine(f, lay, kinds[k])]
  IN IF lay.fancy THEN << <<Space>> >> \o body \o << <<>> >> ELSE body

SeqsUpTo(S, n) == UNION {[1..m -> S] : m \in 0..n}

\* the texts enumerated exhaustively
SmallTexts(f) ==
  {Text(f, lay, kinds) : lay \in Layouts(f), kinds \in SeqsUpTo(LineKinds(f), MaxRows)}
  \cup {Text(f, lay, kinds) : lay \in LackingLayouts(f),
                              kinds \in SeqsUpTo({[row |-> GoodRow(f), cut |-> 0, blank |-> FALSE]}, 1)}

\* the long texts: LongLen data lines, alternating two line kinds
LongKinds(f) ==
  {[row |-> GoodRow(f), cut |-> 0, blank |-> FALSE],
   [row |-> BadRow(f), cut |-> 0, blank |-> FALSE],
   [row |-> GoodRow(f), cut |-> 0, blank |-> TRUE]}

LongTexts(f) ==
  {Text(f, [cols |-> [k \in 1..Len(requiredFields(f)) |-> k], fancy |-> FALSE],
        [k \in 1..LongLen |-> IF k % 2 = 1 THEN a ELSE b]) : a, b \in LongKinds(f)}

\* three rows the withdrawal imports accept, told apart by their cells
BigRow(k) ==
  CASE k % 3 = 0 -> Row4("S1", "2023-01-01", "100.00", "Crypto")
    [] k % 3 = 1 -> Row4("S2", "bad", "50", "btc")
    [] OTHER     -> Row4("S1", "2023-01-01", "12abc", "BTC")

\* the big texts of the batched import: n data lines, every period-th one a
\* row that is rejected (period 0: none)
BigText(n, period) ==
  Text(WithdrawalsBatched, [cols |-> [k \in 1..4 |-> k], fancy |-> FALSE],
       [k \in 1..n |->
          [row |-> IF period > 0 /\ k % period = 0 THEN BadRow(WithdrawalsBatched)
                   ELSE BigRow(k),
           cut |-> 0, blank |-> FALSE]])

BigTexts ==
  {BigText(BATCH_SIZE, 0), BigText(BATCH_SIZE + 1, 0), BigText(2 * BATCH_SIZE, 0),
   BigText(MaxBigRows, 0), BigText(MaxBigRows, 4), BigText(BATCH_SIZE, 1)}

\* texts with nothing but whitespace: the empty text, a line of spaces, two
\* blank lines
BlankTexts == {<<>>, << <<Space>> >>, << <<>>, <<Space, Space>> >>}

\* the texts of a session: a header alone, one accepted row, and LongLen
\* rows, accepted and rejected in turn
SessionTexts(f) ==
  LET plain == [cols |-> [k \in 1..Len(requiredFields(f)) |-> k], fancy |-> FALSE]
      good == [row |-> GoodRow(f), cut |-> 0, blank |-> FALSE]
      bad == [row |-> BadRow(f), cut |-> 0, blank |-> FALSE]
  IN {Text(f, plain, <<>>), Text(f, plain, <<good>>),
      Text(f, plain, [k \in 1..LongLen |-> IF k % 2 = 1 THEN good ELSE bad])}

\* what the user may type over the text
EditedTexts(f) ==
  LET plain == [cols |-> [k \in 1..Len(requiredFields(f)) |-> k], fancy |-> FALSE]
      good == [row |-> GoodRow(f), cut |-> 0, blank |-> FALSE]
      lacking == [cols |-> [k \in 1..(Len(requiredFields(f)) - 1) |-> k], fancy |-> FALSE]
  IN {Text(f, plain, <<>>), Text(f, plain, <<good, good>>), Text(f, lacking, <<good>>)}

Client1 == [shopId |-> "S1", clientName |-> "Acme", agent |-> "Ann"]

ClientLists == {<<>>, <<Client1>>}

\* a record the collection of flow f holds before the import
Existing(f) ==
  CASE f = Orders -> [id |-> 3, shopId |-> "S1", clientName |-> "Acme", agent |-> "Ann",
                      date |-> "2022-12-31", location |-> "Rome",
                      amount |-> Num(100), status |-> "Pending"]
    [] f = Agents -> [id |-> 3, name |-> "Zed", addedToday |-> Num(0),
                      monthlyAdded |-> Num(0), openAccounts |-> 0,
                      totalDeposits |-> Num(0)]
    [] OTHER      -> [id |-> 3, shopId |-> "S1", clientName |-> "Acme", agent |-> "Ann",
                      date |-> "2022-12-31", amount |-> Num(100),
                      paymentMode |-> "Crypto"]

Stores(f) == {{}, {Existing(f)}}

\* ------------------------------------------------------------------------
\* Initial states
\* ------------------------------------------------------------------------

\* the modal as mounted, the text typed or uploaded, handleImport not called
Mounted ==
  /\ error = ""
  /\ success = FALSE
  /\ successCount = 0
  /\ errorCount = 0
  /\ isProcessing = FALSE
  /\ progress = 0
  /\ pc = "idle"
  /\ lines = <<>>
  /\ header = <<>>
  /\ i = 0
  /\ nSuccess = 0
  /\ nError = 0
  /\ allWithdrawals = <<>>
  /\ offset = 0
  /\ calls = <<>>
  /\ generated = <<>>
  /\ batches = <<>>
  /\ runs = 0
  /\ runClients = <<>>
  /\ isOpen = TRUE

\* the view state of a table as mounted, before the context has loaded a list
ViewMounted ==
  /\ orders = <<>>
  /\ filteredOrders = <<>>
  /\ searchTerm = ""
  /\ statusFilter = "all"
  /\ agentFilter = "all"
  /\ sortField = "date"
  /\ sortDirection = "desc"
  /\ currentPage = 1
  /\ itemsPerPage = 10
  /\ changes = 0

\* the single-withdrawal modal while the table has not rendered it
FormUnmounted ==
  /\ formWithdrawalId = 0
  /\ formShopId = ""
  /\ formClientName = ""
  /\ formAgent = ""
  /\ formDate = Today
  /\ formAmount = Num(0)
  /\ formPaymentMode = "Crypto"
  /\ shopIdError = ""
  /\ amountError = ""
  /\ isSubmitting = FALSE
  /\ persisted = <<>>

\* the agent table as mounted: no cell is being edited
NoCellEdited ==
  /\ editingCell = <<>>
  /\ editValue = [kind |-> "string", text |-> "", num |-> Num(0)]
  /\ updates = <<>>
  /\ exported = <<>>

\* the table that rendered the modal: a user who was offered the bulk
\* import has opened it
TableBehindModal ==
  /\ table = TableOf(flow)
  /\ isViewer = FALSE
  /\ isAdmin = (flow = Agents)
  /\ isModalOpen = FALSE
  /\ isBulkModalOpen = (flow # Agents)
  /\ isExportModalOpen = FALSE
  /\ isRegistrationModalOpen = FALSE
  /\ isImportModalOpen = (flow = Agents)
  /\ modalMode = "add"
  /\ selected = 0
  /\ listed = {}
  /\ deleted = <<>>

Init ==
  /\ flow \in Flows
  /\ clients \in ClientLists
  /\ store \in Stores(flow)
  /\ csvData \in SmallTexts(flow) \cup LongTexts(flow) \cup BlankTexts
  /\ Mounted
  /\ TableBehindModal
  /\ ViewMounted
  /\ FormUnmounted
  /\ NoCellEdited

InitSession ==
  /\ flow \in Flows
  /\ clients \in ClientLists
  /\ store = {}
  /\ csvData \in SessionTexts(flow)
  /\ Mounted
  /\ TableBehindModal
  /\ ViewMounted
  /\ FormUnmounted
  /\ NoCellEdited

InitBatch ==
  /\ flow = WithdrawalsBatched
  /\ clients \in ClientLists
  /\ store = {}
  /\ csvData \in BigTexts
  /\ Mounted
  /\ TableBehindModal
  /\ ViewMounted
  /\ FormUnmounted
  /\ NoCellEdited

\* ------------------------------------------------------------------------
\* handleImport
\* ------------------------------------------------------------------------

\* setSuccess(false) opens the try block of the deposit import only
SuccessAtStart(f, was) == IF f = Deposits THEN FALSE ELSE was

\* setSuccess(...) after the loop: successCount > 0 in the deposit import,
\* true in the others
SuccessAtEnd(f, n) == IF f = Deposits THEN n > 0 ELSE TRUE

NoValidMessage(f) ==
  CASE f = Orders   -> "No valid orders found in the CSV data"
    [] f = Deposits -> "No valid deposits found in the CSV data"
    [] f = Agents   -> "No valid agents found in the CSV data"
    [] OTHER        -> "No valid withdrawals found in the CSV data"

\* what the catch block passes to setError
CaughtMessage(f, message) ==
  IF f = WithdrawalsBatched THEN "Error processing CSV data: " \o message
  ELSE "Error processing CSV data. Please check the format."

MissingMessage(missing) == "CSV is missing required fields: " \o JoinComma(missing)

\* an Import button that a run in progress does not disable; C14 tells it
\* from ImportEnabled
ImportEnabledWhileProcessing == ~IsBlankText(csvData)

\* the Import button: disabled={isProcessing || !csvData.trim()}
ImportEnabled == ~isProcessing /\ ~IsBlankText(csvData)

\* handleImport from its call to the first line of the row loop; the locals
\* of the call start afresh
StartImport ==
  /\ isOpen
  /\ ImportEnabled
  /\ runs' = runs + 1
  /\ IF IsBlankText(csvData)
       THEN /\ error' = "Please enter or upload CSV data"
            /\ UNCHANGED <<success, isProcessing, progress, pc, lines, header, i, runClients,
                           nSuccess, nError, allWithdrawals, offset, calls, generated, batches>>
       ELSE LET ls == TrimSplitLines(csvData)
                hd == ParseHeader(ls[1])
                missing == missingFields(flow, hd)
            IN /\ progress' = 0
               /\ success' = SuccessAtStart(flow, success)
               /\ lines' = ls
               /\ runClients' = clients
               /\ nSuccess' = 0
               /\ nError' = 0
               /\ allWithdrawals' = <<>>
               /\ offset' = 0
               /\ calls' = <<>>
               /\ generated' = <<>>
               /\ batches' = <<>>
               /\ IF Len(ls) < 2
                    THEN /\ error' = "CSV must contain at least a header row and one data row"
                         /\ isProcessing' = FALSE
                         /\ pc' = "structural"
                         /\ header' = <<>>
                         /\ i' = 0
                    ELSE IF missing # <<>>
                    THEN /\ error' = MissingMessage(missing)
                         /\ isProcessing' = FALSE
                         /\ pc' = "structural"
                         /\ header' = hd
                         /\ i' = 0
                    ELSE /\ error' = ""
                         /\ isProcessing' = TRUE
                         /\ pc' = "rows"
                         /\ header' = hd
                         /\ i' = 1
  /\ UNCHANGED <<pageVars, tableVars, flow, clients, isOpen, store, csvData, successCount, errorCount>>

\* the first press of the Import button
HandleImport == pc = "idle" /\ StartImport

\* any press of the Import button, the first or a later one
PressImport == runs < MaxRuns /\ StartImport

\* the clients of the latest render; C15 tells them from ClientsOfRun
ClientsOfLatestRender == clients

\* the clients the running handleImport reads: those of the render that
\* created it
ClientsOfRun == runClients

\* where the loop goes after the body ran for line i: to the yield, to the
\* next line, or out of the loop
AfterRow(yields) ==
  IF yields THEN "yield"
  ELSE IF i + 1 > TotalDataRows THEN "finish"
  ELSE "rows"

\* i % 10 === 0 (i % 5 in the agent import)
YieldsAt(f, k) == YieldEvery(f) > 0 /\ k % YieldEvery(f) = 0

\* a rejected row that is not counted; C1 tells it from RejectRow
RejectRowUncounted ==
  /\ pc' = AfterRow(FALSE)
  /\ UNCHANGED <<nSuccess, nError, progress, store, calls, generated, allWithdrawals>>

\* a rejected row for which an identifier is drawn all the same; C16 tells
\* it from RejectRow
RejectRowDrawsId ==
  /\ nError' = nError + 1
  /\ generated' = Append(generated, GenerateId(store))
  /\ pc' = AfterRow(FALSE)
  /\ UNCHANGED <<nSuccess, progress, store, calls, allWithdrawals>>

\* a rejected row: errorCount++ and continue
RejectRow ==
  /\ nError' = nError + 1
  /\ pc' = AfterRow(FALSE)
  /\ UNCHANGED <<nSuccess, progress, store, calls, generated, allWithdrawals>>

\* an accepted row: the record is persisted (or kept for the batches),
\* successCount++, then the progress update below the if block
AcceptRow(rec) ==
  /\ nSuccess' = nSuccess + 1
  /\ generated' = IF flow = Agents THEN generated ELSE Append(generated, rec.id)
  /\ IF flow = WithdrawalsBatched
       THEN /\ allWithdrawals' = Append(allWithdrawals, rec)
            /\ UNCHANGED <<store, calls>>
       ELSE /\ calls' = Append(calls, rec)
            /\ store' = IF flow = Agents THEN AddAgent(store, rec) ELSE AddRecord(store, rec)
            /\ UNCHANGED allWithdrawals
  /\ progress' = RoundPercent(i, TotalDataRows)
  /\ pc' = AfterRow(YieldsAt(flow, i))
  /\ UNCHANGED nError

\* a blank line: only the progress update
SkipBlank ==
  /\ progress' = RoundPercent(i, TotalDataRows)
  /\ pc' = AfterRow(YieldsAt(flow, i))
  /\ UNCHANGED <<nSuccess, nError, store, calls, generated, allWithdrawals>>

\* one pass through the body of the row loop, for line i
ProcessRow ==
  /\ pc = "rows"
  /\ LET line == lines[i + 1]
         res == RowResult(flow, line, header, ClientsOfRun, GenerateId(store))
     IN IF IsBlankLine(line)
          THEN SkipBlank /\ i' = i + 1 /\ UNCHANGED <<error, isProcessing>>
        ELSE IF res.kind = "throw"
          THEN /\ error' = CaughtMessage(flow, "Cannot read properties of undefined (reading 'trim')")
               /\ isProcessing' = FALSE
               /\ pc' = "caught"
               /\ UNCHANGED <<i, nSuccess, nError, progress, store, calls, generated,
                              allWithdrawals>>
        ELSE IF res.kind = "reject"
          THEN RejectRow /\ i' = i + 1 /\ UNCHANGED <<error, isProcessing>>
        ELSE AcceptRow(res.rec) /\ i' = i + 1 /\ UNCHANGED <<error, isProcessing>>
  /\ UNCHANGED <<pageVars, tableVars, flow, clients, runs, runClients, isOpen, csvData, success, successCount, errorCount,
                 lines, header, offset, batches>>

\* the setTimeout promise of the yield resolves: i++ has run, the loop
\* condition i < lines.length is tested
TimerFires ==
  /\ pc = "yield"
  /\ pc' = IF i > TotalDataRows THEN "finish" ELSE "rows"
  /\ UNCHANGED <<pageVars, tableVars, flow, clients, runs, runClients, isOpen, store, csvData, error, success, successCount,
                 errorCount, isProcessing, progress, lines, header, i, nSuccess,
                 nError, allWithdrawals, offset, calls, generated, batches>>

\* the code below the loops: the counts are reported
ReportCounts ==
  /\ successCount' = nSuccess
  /\ errorCount' = nError
  /\ success' = SuccessAtEnd(flow, nSuccess)
  /\ isProcessing' = FALSE
  /\ error' = IF nSuccess > 0 THEN error ELSE NoValidMessage(flow)
  /\ pc' = "done"

\* a slice one record too long; C4 tells it from BatchSlice
BatchSliceWide(all, from) ==
  SubSeq(all, from + 1,
         IF from + BATCH_SIZE + 1 < Len(all) THEN from + BATCH_SIZE + 1 ELSE Len(all))

\* allWithdrawals.slice(from, from + BATCH_SIZE), from 0-based
BatchSlice(all, from) ==
  SubSeq(all, from + 1, IF from + BATCH_SIZE < Len(all) THEN from + BATCH_SIZE ELSE Len(all))

\* one pass through the batch loop up to await batch.commit(): a batch is
\* created, batch.set is called for each record of the slice
BuildBatch(from) ==
  LET batchWithdrawals == BatchSlice(allWithdrawals, from)
  IN /\ offset' = from
     /\ calls' = calls \o batchWithdrawals
     /\ batches' = Append(batches, [recs |-> batchWithdrawals, status |-> "pending"])
     /\ pc' = "commit"

\* the row loop has ended
Finish ==
  /\ pc = "finish"
  /\ IF flow = WithdrawalsBatched /\ Len(allWithdrawals) > 0
       THEN /\ BuildBatch(0)
            /\ UNCHANGED uiVars
       ELSE /\ ReportCounts
            /\ UNCHANGED <<progress, offset, calls, batches>>
  /\ UNCHANGED <<pageVars, tableVars, flow, clients, runs, runClients, isOpen, store, csvData, lines, header, i, nSuccess, nError,
                 allWithdrawals, generated>>

\* batch.commit() resolves: the documents are written; the next batch is
\* built, or the counts are reported
CommitOk ==
  /\ pc = "commit"
  /\ store' = CommitDocs(store, batches[Len(batches)].recs)
  /\ LET settled == [batches EXCEPT ![Len(batches)].status = "committed"]
     IN IF offset + BATCH_SIZE < Len(allWithdrawals)
          THEN /\ offset' = offset + BATCH_SIZE
               /\ calls' = calls \o BatchSlice(allWithdrawals, offset + BATCH_SIZE)
               /\ batches' = Append(settled, [recs |-> BatchSlice(allWithdrawals, offset + BATCH_SIZE),
                                              status |-> "pending"])
               /\ pc' = "commit"
               /\ UNCHANGED uiVars
          ELSE /\ batches' = settled
               /\ ReportCounts
               /\ UNCHANGED <<progress, offset, calls>>
  /\ UNCHANGED <<pageVars, tableVars, flow, clients, runs, runClients, isOpen, csvData, lines, header, i, nSuccess, nError,
                 allWithdrawals, generated>>

\* a failed commit that also undoes the earlier batches; C5 tells it from
\* CommitFails
CommitFailsRollback ==
  /\ pc = "commit"
  /\ batches' = [batches EXCEPT ![Len(batches)].status = "failed"]
  /\ store' = {}
  /\ error' = CaughtMessage(flow, "commit failed")
  /\ isProcessing' = FALSE
  /\ pc' = "caught"
  /\ UNCHANGED <<pageVars, tableVars, flow, clients, runs, runClients, isOpen, csvData, success, successCount, errorCount,
                 progress, lines, header, i, nSuccess, nError, allWithdrawals,
                 offset, calls, generated>>

\* a catch block that reports the tallies reached; C20 tells it from
\* CommitFails
CommitFailsReporting ==
  /\ pc = "commit"
  /\ batches' = [batches EXCEPT ![Len(batches)].status = "failed"]
  /\ successCount' = nSuccess
  /\ errorCount' = nError
  /\ error' = CaughtMessage(flow, "commit failed")
  /\ isProcessing' = FALSE
  /\ pc' = "caught"
  /\ UNCHANGED <<pageVars, tableVars, flow, clients, runs, runClients, isOpen, store, csvData, success,
                 progress, lines, header, i, nSuccess, nError, allWithdrawals,
                 offset, calls, generated>>

\* a catch block that leaves isProcessing set; C22 tells it from CommitFails
CommitFailsStuck ==
  /\ pc = "commit"
  /\ batches' = [batches EXCEPT ![Len(batches)].status = "failed"]
  /\ error' = CaughtMessage(flow, "commit failed")
  /\ pc' = "caught"
  /\ UNCHANGED <<pageVars, tableVars, flow, clients, runs, runClients, isOpen, store, csvData, success,
                 successCount, errorCount, isProcessing, progress, lines, header, i,
                 nSuccess, nError, allWithdrawals, offset, calls, generated>>

\* batch.commit() rejects: the catch block
CommitFails ==
  /\ pc = "commit"
  /\ batches' = [batches EXCEPT ![Len(batches)].status = "failed"]
  /\ error' = CaughtMessage(flow, "commit failed")
  /\ isProcessing' = FALSE
  /\ pc' = "caught"
  /\ UNCHANGED <<pageVars, tableVars, flow, clients, runs, runClients, isOpen, store, csvData, success, successCount, errorCount,
                 progress, lines, header, i, nSuccess, nError, allWithdrawals,
                 offset, calls, generated>>

Next == HandleImport \/ ProcessRow \/ TimerFires \/ Finish \/ CommitOk \/ CommitFails

Spec == Init /\ [][Next]_vars

\* the Textarea's onChange: setCsvData(e.target.value)
EditText ==
  /\ isOpen
  /\ csvData' \in EditedTexts(flow) \ {csvData}
  /\ UNCHANGED <<pageVars, tableVars, flow, clients, store, error, success, successCount, errorCount,
                 isProcessing, progress, pc, lines, header, i, nSuccess, nError,
                 allWithdrawals, offset, calls, generated, batches, runs, runClients, isOpen>>

\* handleRemoveFile: setSelectedFile(null); setCsvData("")
RemoveFile ==
  /\ isOpen
  /\ csvData # <<>>
  /\ csvData' = <<>>
  /\ UNCHANGED <<pageVars, tableVars, flow, clients, store, error, success, successCount, errorCount,
                 isProcessing, progress, pc, lines, header, i, nSuccess, nError,
                 allWithdrawals, offset, calls, generated, batches, runs, runClients, isOpen>>

\* the client context gives the modal another client list
ClientsChange ==
  /\ clients' \in ClientLists \ {clients}
  /\ UNCHANGED <<pageVars, tableVars, flow, store, csvData, error, success, successCount, errorCount,
                 isProcessing, progress, pc, lines, header, i, nSuccess, nError,
                 allWithdrawals, offset, calls, generated, batches, runs, runClients, isOpen>>

\* the Dialog's onOpenChange, or the timer set after a successful run:
\* onClose(), and the parent unmounts the modal; a running handleImport goes on
Close ==
  /\ isOpen
  /\ isOpen' = FALSE
  /\ isBulkModalOpen' = FALSE
  /\ isImportModalOpen' = FALSE
  /\ UNCHANGED <<table, isViewer, isAdmin, isModalOpen, isExportModalOpen,
                 isRegistrationModalOpen, modalMode, selected, listed, deleted>>
  /\ UNCHANGED <<flow, clients, store, csvData, error, success, successCount, errorCount,
                 isProcessing, progress, pc, lines, header, i, nSuccess, nError,
                 allWithdrawals, offset, calls, generated, batches, runs, runClients>>
  /\ UNCHANGED pageVars

\* a session with one modal: presses of Import and the user's other events
NextSession ==
  \/ PressImport \/ ProcessRow \/ TimerFires \/ Finish \/ CommitOk \/ CommitFails
  \/ EditText \/ RemoveFile \/ ClientsChange \/ Close

SpecSession == InitSession /\ [][NextSession]_vars

\* the texts of the runs whose ending is followed: the session texts, a
\* text whose second row lacks its last cell, and a header that lacks the
\* last required column
LiveTexts(f) ==
  LET plain == [cols |-> [k \in 1..Len(requiredFields(f)) |-> k], fancy |-> FALSE]
      lacking == [cols |-> [k \in 1..(Len(requiredFields(f)) - 1) |-> k], fancy |-> FALSE]
      good == [row |-> GoodRow(f), cut |-> 0, blank |-> FALSE]
      short == [row |-> GoodRow(f), cut |-> 1, blank |-> FALSE]
  IN SessionTexts(f) \cup {Text(f, plain, <<good, short>>), Text(f, lacking, <<good>>)}

InitLive ==
  /\ flow \in Flows
  /\ clients \in ClientLists
  /\ store = {}
  /\ csvData \in LiveTexts(flow)
  /\ Mounted
  /\ TableBehindModal
  /\ ViewMounted
  /\ FormUnmounted
  /\ NoCellEdited

\* one run whose synchronous code goes on, whose yield timers fire and whose
\* batch commits settle, one way or the other
SpecLive ==
  /\ InitLive
  /\ [][Next]_vars
  /\ WF_vars(ProcessRow)
  /\ WF_vars(TimerFires)
  /\ WF_vars(Finish)
  /\ WF_vars(CommitOk \/ CommitFails)

\* the batched withdrawal import on the big texts
NextBatch == HandleImport \/ ProcessRow \/ Finish \/ CommitOk \/ CommitFails

SpecBatch == InitBatch /\ [][NextBatch]_vars

\* ------------------------------------------------------------------------
\* The tables: OrdersTable, WithdrawalsTable, AgentTable

Tables == {"orders", "withdrawals", "agents"}

ListedIds == 1..MaxListed

\* the flows whose bulk import a table can open
FlowsOf(t) == {f \in Flows : TableOf(f) = t}

\* an Add menu rendered for everybody; C17 tells it from AddMenuOffered
AddMenuOfferedToAll == TRUE

\* {!isViewer && (<DropdownMenu> ... Add Single / Bulk Add ...)}
AddMenuOffered == ~isViewer

\* {!isViewer && (<DropdownMenuItem ...> Edit)}
RowEditOffered == ~isViewer

\* {!isViewer && (<DropdownMenuItem ...> Delete)}; in the agent table the
\* whole row menu is rendered for non-viewers only
RowDeleteOffered == ~isViewer

\* {isAdmin && (<DropdownMenu> ... Import CSV ...)}
ImportMenuOffered == isAdmin

\* the import modal while the table has not rendered it
Unmounted ==
  /\ clients = <<>>
  /\ store = {}
  /\ csvData = <<>>
  /\ error = ""
  /\ success = FALSE
  /\ successCount = 0
  /\ errorCount = 0
  /\ isProcessing = FALSE
  /\ progress = 0
  /\ pc = "idle"
  /\ lines = <<>>
  /\ header = <<>>
  /\ i = 0
  /\ nSuccess = 0
  /\ nError = 0
  /\ allWithdrawals = <<>>
  /\ offset = 0
  /\ calls = <<>>
  /\ generated = <<>>
  /\ batches = <<>>
  /\ runs = 0
  /\ runClients = <<>>
  /\ isOpen = FALSE

\* a table as mounted, for any role the auth context may give
InitTables ==
  /\ table \in Tables
  /\ flow \in FlowsOf(table)
  /\ isViewer \in BOOLEAN
  /\ isAdmin \in BOOLEAN
  /\ isModalOpen = FALSE
  /\ isBulkModalOpen = FALSE
  /\ isExportModalOpen = FALSE
  /\ isRegistrationModalOpen = FALSE
  /\ isImportModalOpen = FALSE
  /\ modalMode = "add"
  /\ selected = 0
  /\ listed = ListedIds
  /\ deleted = <<>>
  /\ Unmounted
  /\ ViewMounted
  /\ FormUnmounted
  /\ NoCellEdited

\* what no table action touches: the inside of the import modal
insideModal == <<flow, clients, store, csvData, error, success, successCount, errorCount,
                 isProcessing, progress, pc, lines, header, i, nSuccess, nError,
                 allWithdrawals, offset, calls, generated, batches, runs, runClients>>

\* handleAddOrder / handleAddWithdrawal, from the Add menu
HandleAdd ==
  /\ table \in {"orders", "withdrawals"}
  /\ AddMenuOffered
  /\ modalMode' = "add"
  /\ selected' = 0
  /\ isModalOpen' = TRUE
  /\ UNCHANGED <<table, isViewer, isAdmin, isBulkModalOpen, isExportModalOpen,
                 isRegistrationModalOpen, isImportModalOpen, listed, deleted, isOpen>>
  /\ UNCHANGED insideModal
  /\ UNCHANGED pageVars

\* handleBulkAddOrder / handleBulkAddWithdrawal, from the Add menu: the bulk
\* modal is rendered
HandleBulkAdd ==
  /\ table \in {"orders", "withdrawals"}
  /\ AddMenuOffered
  /\ isBulkModalOpen' = TRUE
  /\ isOpen' = TRUE
  /\ UNCHANGED <<table, isViewer, isAdmin, isModalOpen, isExportModalOpen,
                 isRegistrationModalOpen, isImportModalOpen, modalMode, selected, listed,
                 deleted>>
  /\ UNCHANGED insideModal
  /\ UNCHANGED pageVars

\* handleEditOrder / handleEditWithdrawal, from the menu of a row
HandleEdit ==
  /\ table \in {"orders", "withdrawals"}
  /\ RowEditOffered
  /\ \E id \in listed :
       /\ modalMode' = "edit"
       /\ selected' = id
       /\ isModalOpen' = TRUE
  /\ UNCHANGED <<table, isViewer, isAdmin, isBulkModalOpen, isExportModalOpen,
                 isRegistrationModalOpen, isImportModalOpen, listed, deleted, isOpen>>
  /\ UNCHANGED insideModal
  /\ UNCHANGED pageVars

\* handleDeleteOrder / handleDeleteWithdrawal / handleDeleteAgent, from the
\* menu of a row: deleteX is called if the user confirms
HandleDelete ==
  /\ RowDeleteOffered
  /\ \E id \in listed, confirmed \in BOOLEAN :
       IF confirmed
         THEN /\ deleted' = Append(deleted, id)
              /\ listed' = listed \ {id}
         ELSE UNCHANGED <<deleted, listed>>
  /\ UNCHANGED <<table, isViewer, isAdmin, isModalOpen, isBulkModalOpen, isExportModalOpen,
                 isRegistrationModalOpen, isImportModalOpen, modalMode, selected, isOpen>>
  /\ UNCHANGED insideModal
  /\ UNCHANGED pageVars

\* handleExportOptions: the Export Options button is rendered for everybody
HandleExportOptions ==
  /\ table \in {"orders", "withdrawals"}
  /\ isExportModalOpen' = TRUE
  /\ UNCHANGED <<table, isViewer, isAdmin, isModalOpen, isBulkModalOpen,
                 isRegistrationModalOpen, isImportModalOpen, modalMode, selected, listed,
                 deleted, isOpen>>
  /\ UNCHANGED insideModal
  /\ UNCHANGED pageVars

\* the Import CSV item of the agent table: setIsImportModalOpen(true)
OpenImport ==
  /\ table = "agents"
  /\ ImportMenuOffered
  /\ isImportModalOpen' = TRUE
  /\ isOpen' = TRUE
  /\ UNCHANGED <<table, isViewer, isAdmin, isModalOpen, isBulkModalOpen, isExportModalOpen,
                 isRegistrationModalOpen, modalMode, selected, listed, deleted>>
  /\ UNCHANGED insideModal
  /\ UNCHANGED pageVars

\* the Add Agent button of the agent table, rendered for everybody
OpenRegistration ==
  /\ table = "agents"
  /\ isRegistrationModalOpen' = TRUE
  /\ UNCHANGED <<table, isViewer, isAdmin, isModalOpen, isBulkModalOpen, isExportModalOpen,
                 isImportModalOpen, modalMode, selected, listed, deleted, isOpen>>
  /\ UNCHANGED insideModal
  /\ UNCHANGED pageVars

\* the onClose the table hands to a modal it rendered
CloseModal ==
  /\ \/ isModalOpen /\ isModalOpen' = FALSE
        /\ UNCHANGED <<isBulkModalOpen, isExportModalOpen, isRegistrationModalOpen,
                       isImportModalOpen, isOpen>>
     \/ isBulkModalOpen /\ isBulkModalOpen' = FALSE /\ isOpen' = FALSE
        /\ UNCHANGED <<isModalOpen, isExportModalOpen, isRegistrationModalOpen,
                       isImportModalOpen>>
     \/ isExportModalOpen /\ isExportModalOpen' = FALSE
        /\ UNCHANGED <<isModalOpen, isBulkModalOpen, isRegistrationModalOpen,
                       isImportModalOpen, isOpen>>
     \/ isRegistrationModalOpen /\ isRegistrationModalOpen' = FALSE
        /\ UNCHANGED <<isModalOpen, isBulkModalOpen, isExportModalOpen, isImportModalOpen,
                       isOpen>>
     \/ isImportModalOpen /\ isImportModalOpen' = FALSE /\ isOpen' = FALSE
        /\ UNCHANGED <<isModalOpen, isBulkModalOpen, isExportModalOpen,
                       isRegistrationModalOpen>>
  /\ UNCHANGED <<table, isViewer, isAdmin, modalMode, selected, listed, deleted>>
  /\ UNCHANGED insideModal
  /\ UNCHANGED pageVars

\* the auth context gives the table another role
RoleChange ==
  /\ \E v \in BOOLEAN, a \in BOOLEAN :
       /\ <<v, a>> # <<isViewer, isAdmin>>
       /\ isViewer' = v
       /\ isAdmin' = a
  /\ UNCHANGED <<table, isModalOpen, isBulkModalOpen, isExportModalOpen,
                 isRegistrationModalOpen, isImportModalOpen, modalMode, selected, listed,
                 deleted, isOpen>>
  /\ UNCHANGED insideModal
  /\ UNCHANGED pageVars

NextTables ==
  \/ HandleAdd \/ HandleBulkAdd \/ HandleEdit \/ HandleDelete \/ HandleExportOptions
  \/ OpenImport \/ OpenRegistration \/ CloseModal \/ RoleChange

SpecTables == InitTables /\ [][NextTables]_vars

\* ------------------------------------------------------------------------
\* The views of OrdersTable and WithdrawalsTable: search, filters, sort, pages
\* ------------------------------------------------------------------------

\* the longest list a view is given
MaxOrders == 11

\* how many times the context changes the list of a view
MaxChanges == 2

ViewTables == {"orders", "withdrawals"}

\* the UTF-16 code units of the strings the views search and compare
CodeUnits(s) ==
  CASE s = ""               -> <<>>
    [] s = "S1"             -> <<83, 49>>
    [] s = "S2"             -> <<83, 50>>
    [] s = "Acme"           -> <<65, 99, 109, 101>>
    [] s = "bolt"           -> <<98, 111, 108, 116>>
    [] s = "Ann"            -> <<65, 110, 110>>
    [] s = "Bea"            -> <<66, 101, 97>>
    [] s = "Rome"           -> <<82, 111, 109, 101>>
    [] s = "oslo"           -> <<111, 115, 108, 111>>
    [] s = "RO"             -> <<82, 79>>
    [] s = "s1"             -> <<115, 49>>
    [] s = "zz"             -> <<122, 122>>
    [] s = "2022-12-31"     -> <<50, 48, 50, 50, 45, 49, 50, 45, 51, 49>>
    [] s = "2023-01-01"     -> <<50, 48, 50, 51, 45, 48, 49, 45, 48, 49>>
    [] s = "Pending"        -> <<80, 101, 110, 100, 105, 110, 103>>
    [] s = "Processing"     -> <<80, 114, 111, 99, 101, 115, 115, 105, 110, 103>>
    [] s = "Completed"      -> <<67, 111, 109, 112, 108, 101, 116, 101, 100>>
    [] s = "Crypto"         -> <<67, 114, 121, 112, 116, 111>>
    [] s = "Online Banking" -> <<79, 110, 108, 105, 110, 101, 32, 66, 97, 110, 107, 105, 110, 103>>
    [] s = "Ewallet"        -> <<69, 119, 97, 108, 108, 101, 116>>

\* String.prototype.toLowerCase, unit by unit: A..Z become a..z
LowerUnits(u) == [k \in 1..Len(u) |-> IF u[k] \in 65..90 THEN u[k] + 32 ELSE u[k]]

\* String.prototype.includes
StringIncludes(u, t) ==
  \E k \in 0..(Len(u) - Len(t)) : SubSeq(u, k + 1, k + Len(t)) = t

\* a < b for two strings: the first differing code unit decides, a proper
\* prefix is smaller
StringLess(a, b) ==
  \E k \in 1..Len(b) :
    /\ \A j \in 1..(k - 1) : j <= Len(a) /\ a[j] = b[j]
    /\ k > Len(a) \/ (k - 1 < Len(a) /\ a[k] < b[k])

\* a search that compares the cells as they are written; C21 tells it from
\* SearchMatches
SearchMatchesAsWritten(t, o, term) ==
  LET has(cell) == StringIncludes(CodeUnits(cell), term)
  IN \/ has(o.shopId)
     \/ has(o.clientName)
     \/ has(o.agent)
     \/ t = "orders" /\ has(o.location)

\* the predicate of the search filter, term being searchTerm.toLowerCase():
\* the withdrawals table does not look at a location
SearchMatches(t, o, term) ==
  LET has(cell) == StringIncludes(LowerUnits(CodeUnits(cell)), term)
  IN \/ has(o.shopId)
     \/ has(o.clientName)
     \/ has(o.agent)
     \/ t = "orders" /\ has(o.location)

\* a[sortField]
FieldOf(o, field) ==
  CASE field = "date"        -> o.date
    [] field = "location"    -> o.location
    [] field = "status"      -> o.status
    [] field = "paymentMode" -> o.paymentMode
    [] field = "shopId"      -> o.shopId

\* the column whose cells are numbers
NumberField(t) == IF t = "orders" THEN "price" ELSE "amount"

\* n || 0
OrZero(n) == IF n.nan THEN 0 ELSE n.val

\* the comparator handed to result.sort: negative, zero or positive. The
\* orders table reads a.price || 0 and a[sortField] || ""; a null date is ""
Comparator(t, a, b, field, direction) ==
  IF field = NumberField(t)
    THEN IF direction = "asc" THEN OrZero(a.amount) - OrZero(b.amount)
         ELSE OrZero(b.amount) - OrZero(a.amount)
    ELSE LET orEmpty(v) == IF v = "<null>" THEN "" ELSE v
             aValue == CodeUnits(orEmpty(FieldOf(a, field)))
             bValue == CodeUnits(orEmpty(FieldOf(b, field)))
         IN IF StringLess(aValue, bValue) THEN (IF direction = "asc" THEN -1 ELSE 1)
            ELSE IF StringLess(bValue, aValue) THEN (IF direction = "asc" THEN 1 ELSE -1)
            ELSE 0

\* Array.prototype.sort with that comparator: a stable sort
RECURSIVE SortWith(_, _, _, _)
SortWith(t, arr, field, direction) ==
  IF arr = <<>> THEN <<>>
  ELSE LET rest == SortWith(t, SubSeq(arr, 1, Len(arr) - 1), field, direction)
           x == arr[Len(arr)]
           n == Cardinality({k \in 1..Len(rest) :
                               Comparator(t, rest[k], x, field, direction) <= 0})
       IN SubSeq(rest, 1, n) \o <<x>> \o SubSeq(rest, n + 1, Len(rest))

\* the filter and sort effect: what it hands to setFilteredOrders /
\* setFilteredWithdrawals
FilterAndSort(t, list, search, kindFilter, agent, field, direction) ==
  LET term == LowerUnits(CodeUnits(search))
      kindOf(o) == IF t = "orders" THEN o.status ELSE o.paymentMode
      searched == IF search # "" THEN SelectSeq(list, LAMBDA o : SearchMatches(t, o, term))
                  ELSE list
      ofKind == IF kindFilter # "all"
                  THEN SelectSeq(searched, LAMBDA o : kindOf(o) = kindFilter)
                  ELSE searched
      ofAgent == IF agent # "all" THEN SelectSeq(ofKind, LAMBDA o : o.agent = agent)
                 ELSE ofKind
  IN SortWith(t, ofAgent, field, direction)

\* Math.ceil(filteredOrders.length / itemsPerPage)
totalPages == (Len(filteredOrders) + itemsPerPage - 1) \div itemsPerPage

\* (currentPage - 1) * itemsPerPage
startIndex == (currentPage - 1) * itemsPerPage

\* Array.prototype.slice(from, to): a negative index counts from the end
Slice(arr, from, to) ==
  LET clamp(x) == IF x < 0 THEN (IF Len(arr) + x < 0 THEN 0 ELSE Len(arr) + x)
                  ELSE IF x > Len(arr) THEN Len(arr) ELSE x
  IN SubSeq(arr, clamp(from) + 1, clamp(to))

\* paginatedOrders / paginatedWithdrawals
paginatedOrders == Slice(filteredOrders, startIndex, startIndex + itemsPerPage)

\* the page numbers of the links rendered between Previous and Next
PageLinks ==
  LET shown == IF totalPages < 5 THEN totalPages ELSE 5
      pageNum(k) == IF totalPages <= 5 THEN k + 1
                    ELSE IF currentPage <= 3 THEN k + 1
                    ELSE IF currentPage >= totalPages - 2 THEN totalPages - 4 + k
                    ELSE currentPage - 2 + k
  IN {pageNum(k) : k \in 0..(shown - 1)}

\* the options of the page-size Select
PageSizes == {10, 25, 50, 100}

\* the options of the status / payment-mode Select
KindOptions(t) ==
  {"all"} \cup (IF t = "orders" THEN {"Pending", "Processing", "Completed"}
                ELSE {"Crypto", "Online Banking", "Ewallet"})

\* uniqueAgents, the options of the agent Select after "all"
uniqueAgents == {orders[k].agent : k \in 1..Len(orders)}

\* the columns whose header calls handleSort
SortFields(t) ==
  IF t = "orders" THEN {"date", "location", "price", "status"}
  ELSE {"date", "amount", "paymentMode"}

\* what the user types into the search box
SearchTerms == {"", "RO", "s1"}

\* the k-th record of the lists the views are given
ViewRecord(t, k) ==
  LET base == [id |-> k,
               shopId |-> IF k % 2 = 1 THEN "S1" ELSE "S2",
               clientName |-> IF k % 2 = 1 THEN "Acme" ELSE "bolt",
               agent |-> IF k % 2 = 1 THEN "Ann" ELSE "Bea",
               amount |-> Num(100 * ((k % 3) + 1))]
  IN IF t = "orders"
       THEN base @@ [date |-> CASE k % 3 = 1 -> "2023-01-01"
                                [] k % 3 = 2 -> "2022-12-31"
                                [] OTHER     -> "<null>",
                     location |-> IF k % 3 = 0 THEN "oslo" ELSE "Rome",
                     status |-> OrderStatuses[(k % 3) + 1]]
       ELSE base @@ [date |-> IF k % 3 = 2 THEN "2022-12-31" ELSE "2023-01-01",
                     paymentMode |-> PaymentModes[(k % 3) + 1]]

ViewList(t, n) == [k \in 1..n |-> ViewRecord(t, k)]

\* a table as mounted once the context has loaded a list and the effect has
\* run; the import modal is not rendered
ViewLoaded(lengths) ==
  /\ table \in ViewTables
  /\ flow = (IF table = "orders" THEN Orders ELSE Withdrawals)
  /\ isViewer = FALSE
  /\ isAdmin = FALSE
  /\ isModalOpen = FALSE
  /\ isBulkModalOpen = FALSE
  /\ isExportModalOpen = FALSE
  /\ isRegistrationModalOpen = FALSE
  /\ isImportModalOpen = FALSE
  /\ modalMode = "add"
  /\ selected = 0
  /\ listed = {}
  /\ deleted = <<>>
  /\ Unmounted
  /\ FormUnmounted
  /\ NoCellEdited
  /\ \E n \in lengths : orders = ViewList(table, n)
  /\ searchTerm = ""
  /\ statusFilter = "all"
  /\ agentFilter = "all"
  /\ sortField = "date"
  /\ sortDirection = "desc"
  /\ filteredOrders = FilterAndSort(table, orders, "", "all", "all", "date", "desc")
  /\ currentPage = 1
  /\ itemsPerPage = 10
  /\ changes = 0

InitView == ViewLoaded({0, 3})

InitPages == ViewLoaded({0, MaxOrders})

outsideView == <<importVars, tableVars, formVars, agentVars>>

\* the context hands the table a list with one more record, and the effect
\* runs
ContextAdds ==
  /\ table \in ViewTables
  /\ changes < MaxChanges
  /\ changes' = changes + 1
  /\ LET id == Max({0} \cup {orders[k].id : k \in 1..Len(orders)}) + 1
     IN orders' = Append(orders, ViewRecord(table, id))
  /\ filteredOrders' = FilterAndSort(table, orders', searchTerm, statusFilter, agentFilter,
                                     sortField, sortDirection)
  /\ UNCHANGED <<searchTerm, statusFilter, agentFilter, sortField, sortDirection,
                 currentPage, itemsPerPage>>
  /\ UNCHANGED outsideView

\* the context hands the table a list without one of its records, and the
\* effect runs
ContextDeletes ==
  /\ table \in ViewTables
  /\ changes < MaxChanges
  /\ changes' = changes + 1
  /\ \E k \in 1..Len(orders) :
       orders' = SubSeq(orders, 1, k - 1) \o SubSeq(orders, k + 1, Len(orders))
  /\ filteredOrders' = FilterAndSort(table, orders', searchTerm, statusFilter, agentFilter,
                                     sortField, sortDirection)
  /\ UNCHANGED <<searchTerm, statusFilter, agentFilter, sortField, sortDirection,
                 currentPage, itemsPerPage>>
  /\ UNCHANGED outsideView

\* onChange of the search box: setSearchTerm, and the effect runs
SetSearchTerm ==
  /\ table \in ViewTables
  /\ \E term \in SearchTerms :
       /\ term # searchTerm
       /\ searchTerm' = term
  /\ filteredOrders' = FilterAndSort(table, orders, searchTerm', statusFilter, agentFilter,
                                     sortField, sortDirection)
  /\ UNCHANGED <<orders, statusFilter, agentFilter, sortField, sortDirection, currentPage,
                 itemsPerPage, changes>>
  /\ UNCHANGED outsideView

\* onValueChange of the status / payment-mode Select, and the effect runs
SetStatusFilter ==
  /\ table \in ViewTables
  /\ \E v \in KindOptions(table) :
       /\ v # statusFilter
       /\ statusFilter' = v
  /\ filteredOrders' = FilterAndSort(table, orders, searchTerm, statusFilter', agentFilter,
                                     sortField, sortDirection)
  /\ UNCHANGED <<orders, searchTerm, agentFilter, sortField, sortDirection, currentPage,
                 itemsPerPage, changes>>
  /\ UNCHANGED outsideView

\* onValueChange of the agent Select, and the effect runs
SetAgentFilter ==
  /\ table \in ViewTables
  /\ \E v \in {"all"} \cup uniqueAgents :
       /\ v # agentFilter
       /\ agentFilter' = v
  /\ filteredOrders' = FilterAndSort(table, orders, searchTerm, statusFilter, agentFilter',
                                     sortField, sortDirection)
  /\ UNCHANGED <<orders, searchTerm, statusFilter, sortField, sortDirection, currentPage,
                 itemsPerPage, changes>>
  /\ UNCHANGED outsideView

\* handleSort, from a column header, and the effect runs
HandleSort ==
  /\ table \in ViewTables
  /\ \E field \in SortFields(table) :
       IF field = sortField
         THEN /\ sortDirection' = (IF sortDirection = "asc" THEN "desc" ELSE "asc")
              /\ UNCHANGED sortField
         ELSE /\ sortField' = field
              /\ sortDirection' = "asc"
  /\ filteredOrders' = FilterAndSort(table, orders, searchTerm, statusFilter, agentFilter,
                                     sortField', sortDirection')
  /\ UNCHANGED <<orders, searchTerm, statusFilter, agentFilter, currentPage, itemsPerPage,
                 changes>>
  /\ UNCHANGED outsideView

\* onValueChange of the page-size Select
SetItemsPerPage ==
  /\ table \in ViewTables
  /\ \E v \in PageSizes :
       /\ v # itemsPerPage
       /\ itemsPerPage' = v
  /\ currentPage' = 1
  /\ UNCHANGED <<orders, filteredOrders, searchTerm, statusFilter, agentFilter, sortField,
                 sortDirection, changes>>
  /\ UNCHANGED outsideView

\* PaginationPrevious: no pointer events while currentPage === 1
PaginationPrevious ==
  /\ table \in ViewTables
  /\ currentPage # 1
  /\ currentPage' = (IF currentPage - 1 > 1 THEN currentPage - 1 ELSE 1)
  /\ UNCHANGED <<orders, filteredOrders, searchTerm, statusFilter, agentFilter, sortField,
                 sortDirection, itemsPerPage, changes>>
  /\ UNCHANGED outsideView

\* PaginationNext: no pointer events while currentPage === totalPages
PaginationNext ==
  /\ table \in ViewTables
  /\ currentPage # totalPages
  /\ currentPage' = (IF currentPage + 1 < totalPages THEN currentPage + 1 ELSE totalPages)
  /\ UNCHANGED <<orders, filteredOrders, searchTerm, statusFilter, agentFilter, sortField,
                 sortDirection, itemsPerPage, changes>>
  /\ UNCHANGED outsideView

\* PaginationLink: setCurrentPage(pageNum)
PaginationLink ==
  /\ table \in ViewTables
  /\ \E pageNum \in PageLinks :
       /\ pageNum # currentPage
       /\ currentPage' = pageNum
  /\ UNCHANGED <<orders, filteredOrders, searchTerm, statusFilter, agentFilter, sortField,
                 sortDirection, itemsPerPage, changes>>
  /\ UNCHANGED outsideView

NextView ==
  \/ ContextAdds \/ ContextDeletes \/ SetSearchTerm \/ SetStatusFilter \/ SetAgentFilter
  \/ HandleSort

SpecView == InitView /\ [][NextView]_vars

NextPages ==
  \/ ContextAdds \/ ContextDeletes \/ SetSearchTerm \/ SetItemsPerPage
  \/ PaginationPrevious \/ PaginationNext \/ PaginationLink

SpecPages == InitPages /\ [][NextPages]_vars

\* ------------------------------------------------------------------------
\* WithdrawalModal: the single-withdrawal form the withdrawals table opens
\* ------------------------------------------------------------------------

\* how many times the form calls addWithdrawal / updateWithdrawal
MaxSubmits == 1

\* what the amount field may hold after a keystroke; "" is the cleared field
AmountTexts == {"", "50", "0", "-5"}

\* validateShopId: the message it sets, "" when it returns true
ShopIdMessage(shopIdValue, cl) ==
  IF shopIdValue = "" THEN "Shop ID is required"
  ELSE IF ~\E k \in 1..Len(cl) : cl[k].shopId = shopIdValue
    THEN "Client with this Shop ID does not exist"
  ELSE ""

\* validateAmount: the message it sets, "" when it returns true
AmountMessage(a) == IF LeqZero(a) THEN "Amount must be greater than 0" ELSE ""

\* the withdrawal prop: the record the table selected
SelectedWithdrawal == CHOOSE r \in store : r.id = selected

\* the effect on [shopId, clients]: the name and agent of the client of the
\* shop ID, what the form held when there is none
ClientNameFor(sid, held) ==
  LET found == IF sid = "" THEN <<>> ELSE FindClient(clients, sid)
  IN IF found = <<>> THEN held ELSE found[1].clientName

AgentFor(sid, held) ==
  LET found == IF sid = "" THEN <<>> ELSE FindClient(clients, sid)
  IN IF found = <<>> THEN held ELSE found[1].agent

\* const withdrawalData
withdrawalData ==
  [id |-> formWithdrawalId, shopId |-> formShopId, clientName |-> formClientName,
   agent |-> formAgent, date |-> formDate, amount |-> formAmount,
   paymentMode |-> formPaymentMode]

\* what the handlers of the form leave alone
outsideForm == <<flow, clients, csvData, error, success, successCount, errorCount,
                 isProcessing, progress, pc, lines, header, i, nSuccess, nError,
                 allWithdrawals, offset, calls, generated, batches, runs, runClients, isOpen,
                 table, isViewer, isAdmin, isBulkModalOpen, isExportModalOpen,
                 isRegistrationModalOpen, isImportModalOpen, listed, deleted, viewVars,
                 agentVars>>

\* handleAddWithdrawal, the modal mounts and initializeForm runs in add mode;
\* the form is opened while no import is running
HandleAddWithdrawal ==
  /\ table = "withdrawals"
  /\ AddMenuOffered
  /\ ~isModalOpen /\ ~isBulkModalOpen
  /\ ~isProcessing
  /\ modalMode' = "add"
  /\ selected' = 0
  /\ isModalOpen' = TRUE
  /\ formWithdrawalId' = GenerateId(store)
  /\ formShopId' = ""
  /\ formClientName' = ""
  /\ formAgent' = ""
  /\ formDate' = Today
  /\ formAmount' = Num(0)
  /\ formPaymentMode' = "Crypto"
  /\ UNCHANGED <<shopIdError, amountError, isSubmitting, persisted, store>>
  /\ UNCHANGED outsideForm

\* handleEditWithdrawal from the menu of a row, the modal mounts,
\* initializeForm copies the withdrawal and the effect on [shopId, clients]
\* runs
HandleEditWithdrawal ==
  /\ table = "withdrawals"
  /\ RowEditOffered
  /\ ~isModalOpen /\ ~isBulkModalOpen
  /\ ~isProcessing
  /\ \E withdrawal \in store :
       /\ modalMode' = "edit"
       /\ selected' = withdrawal.id
       /\ isModalOpen' = TRUE
       /\ formWithdrawalId' = withdrawal.id
       /\ formShopId' = withdrawal.shopId
       /\ formClientName' = ClientNameFor(withdrawal.shopId, withdrawal.clientName)
       /\ formAgent' = AgentFor(withdrawal.shopId, withdrawal.agent)
       /\ formDate' = withdrawal.date
       /\ formAmount' = withdrawal.amount
       /\ formPaymentMode' = withdrawal.paymentMode
  /\ UNCHANGED <<shopIdError, amountError, isSubmitting, persisted, store>>
  /\ UNCHANGED outsideForm

\* a client of the search dropdown is clicked (the search box is disabled in
\* edit mode): setShopId, validateShopId(client.shopId), and the effect on
\* [shopId, clients]
SelectClient ==
  /\ isModalOpen
  /\ table = "withdrawals"
  /\ modalMode = "add"
  /\ \E k \in 1..Len(clients) :
       /\ formShopId' = clients[k].shopId
       /\ shopIdError' = ShopIdMessage(clients[k].shopId, clients)
       /\ formClientName' = ClientNameFor(clients[k].shopId, formClientName)
       /\ formAgent' = AgentFor(clients[k].shopId, formAgent)
  /\ UNCHANGED <<formWithdrawalId, formDate, formAmount, formPaymentMode, amountError,
                 isSubmitting, persisted, store, isModalOpen, modalMode, selected>>
  /\ UNCHANGED outsideForm

\* onChange of the amount field: setAmount(Number.parseFloat(value)), and
\* validateAmount() of this render, which still reads the amount before it
SetAmount ==
  /\ isModalOpen
  /\ table = "withdrawals"
  /\ \E typed \in AmountTexts :
       /\ parseFloat(typed) # formAmount
       /\ formAmount' = parseFloat(typed)
  /\ amountError' = AmountMessage(formAmount)
  /\ UNCHANGED <<formWithdrawalId, formShopId, formClientName, formAgent, formDate,
                 formPaymentMode, shopIdError, isSubmitting, persisted, store, isModalOpen,
                 modalMode, selected>>
  /\ UNCHANGED outsideForm

\* onValueChange of the payment-mode Select
SetPaymentMode ==
  /\ isModalOpen
  /\ table = "withdrawals"
  /\ \E k \in 1..Len(PaymentModes) :
       /\ PaymentModes[k] # formPaymentMode
       /\ formPaymentMode' = PaymentModes[k]
  /\ UNCHANGED <<formWithdrawalId, formShopId, formClientName, formAgent, formDate,
                 formAmount, shopIdError, amountError, isSubmitting, persisted, store,
                 isModalOpen, modalMode, selected>>
  /\ UNCHANGED outsideForm

\* both validations of handleSubmit hold
FormValid == ShopIdMessage(formShopId, clients) = "" /\ AmountMessage(formAmount) = ""

\* handleSubmit up to its await: both validations run; when both hold,
\* setIsSubmitting(true) and addWithdrawal / updateWithdrawal is called
HandleSubmit ==
  /\ isModalOpen
  /\ table = "withdrawals"
  /\ ~isSubmitting
  /\ Len(persisted) < MaxSubmits
  /\ shopIdError' = ShopIdMessage(formShopId, clients)
  /\ amountError' = AmountMessage(formAmount)
  /\ IF ~FormValid
       THEN UNCHANGED <<isSubmitting, persisted>>
       ELSE /\ isSubmitting' = TRUE
            /\ persisted' = Append(persisted, [op |-> modalMode, rec |-> withdrawalData])
  /\ UNCHANGED <<formWithdrawalId, formShopId, formClientName, formAgent, formDate,
                 formAmount, formPaymentMode, store, isModalOpen, modalMode, selected>>
  /\ UNCHANGED outsideForm

\* the awaited call resolves: the collection holds the record, onClose()
\* unmounts the modal and its state is gone
SubmitResolves ==
  /\ isSubmitting
  /\ LET call == persisted[Len(persisted)]
     IN store' = {r \in store : r.id # call.rec.id} \cup {call.rec}
  /\ isModalOpen' = FALSE
  /\ isSubmitting' = FALSE
  /\ formWithdrawalId' = 0
  /\ formShopId' = ""
  /\ formClientName' = ""
  /\ formAgent' = ""
  /\ formDate' = Today
  /\ formAmount' = Num(0)
  /\ formPaymentMode' = "Crypto"
  /\ shopIdError' = ""
  /\ amountError' = ""
  /\ UNCHANGED <<persisted, modalMode, selected>>
  /\ UNCHANGED outsideForm

\* the awaited call rejects: the catch shows a toast, finally
\* setIsSubmitting(false); the modal stays open
SubmitRejects ==
  /\ isSubmitting
  /\ isSubmitting' = FALSE
  /\ UNCHANGED <<formWithdrawalId, formShopId, formClientName, formAgent, formDate,
                 formAmount, formPaymentMode, shopIdError, amountError, persisted, store,
                 isModalOpen, modalMode, selected>>
  /\ UNCHANGED outsideForm

\* Cancel, disabled while isSubmitting: onClose() unmounts the modal
CancelForm ==
  /\ isModalOpen
  /\ table = "withdrawals"
  /\ ~isSubmitting
  /\ isModalOpen' = FALSE
  /\ formWithdrawalId' = 0
  /\ formShopId' = ""
  /\ formClientName' = ""
  /\ formAgent' = ""
  /\ formDate' = Today
  /\ formAmount' = Num(0)
  /\ formPaymentMode' = "Crypto"
  /\ shopIdError' = ""
  /\ amountError' = ""
  /\ UNCHANGED <<isSubmitting, persisted, store, modalMode, selected>>
  /\ UNCHANGED outsideForm

\* the text imported before the form is opened: a row of shop S1, which
\* may be a client, and a row of shop S2, which is not
FormTexts ==
  LET plain == [cols |-> [k \in 1..Len(requiredFields(Withdrawals)) |-> k], fancy |-> FALSE]
      known == [row |-> GoodRow(Withdrawals), cut |-> 0, blank |-> FALSE]
      unknown == [row |-> Row4("S2", "bad", "50", "btc"), cut |-> 0, blank |-> FALSE]
  IN {Text(Withdrawals, plain, <<known, unknown>>)}

\* the withdrawals table with its bulk import open over an empty collection
InitForm ==
  /\ flow = Withdrawals
  /\ clients \in ClientLists
  /\ store = {}
  /\ csvData \in FormTexts
  /\ Mounted
  /\ TableBehindModal
  /\ ViewMounted
  /\ FormUnmounted
  /\ NoCellEdited

\* a bulk import, then the single-withdrawal form
NextForm ==
  \/ HandleImport \/ ProcessRow \/ Finish \/ Close
  \/ HandleAddWithdrawal \/ HandleEditWithdrawal \/ SelectClient \/ SetAmount
  \/ SetPaymentMode \/ HandleSubmit \/ SubmitResolves \/ SubmitRejects \/ CancelForm

SpecForm == InitForm /\ [][NextForm]_vars

\* ------------------------------------------------------------------------
\* AgentTable: inline cell editing
\* ------------------------------------------------------------------------

\* how many times the table calls updateAgent
MaxEdits == 2

\* editValue holds a string or a number
StringValue(s) == [kind |-> "string", text |-> s, num |-> Num(0)]

NumberValue(n) == [kind |-> "number", text |-> "", num |-> n]

\* Number(s) for the strings typed into a cell: the whole string must be a
\* number, the empty string is 0
ToNumber(s) ==
  CASE s = ""    -> Num(0)
    [] s = "7"   -> Num(700)
    [] s = "-5"  -> Num(-500)
    [] s = "3.9" -> Num(390)
    [] OTHER     -> NaN

\* Number(editValue)
NumberOfEditValue == IF editValue.kind = "number" THEN editValue.num ELSE ToNumber(editValue.text)

\* the cells whose onDoubleClick starts an edit, all accepted by the test of
\* handleCellDoubleClick
EditableFields == {"name", "addedToday", "monthlyAdded", "openAccounts"}

\* what is typed into the input of a cell
TypedTexts == {"", "7", "-5", "abc"}

\* the value of a cell as handed to handleCellDoubleClick
CellValue(agent, field) ==
  CASE field = "name"         -> StringValue(agent.name)
    [] field = "openAccounts" -> NumberValue(Num(agent.openAccounts))
    [] OTHER                  -> NumberValue(agent[field])

\* what the handlers of the agent table leave alone
outsideCells == <<flow, clients, csvData, error, success, successCount, errorCount,
                  isProcessing, progress, pc, lines, header, i, nSuccess, nError,
                  allWithdrawals, offset, calls, generated, batches, runs, runClients,
                  isOpen, tableVars, viewVars, formVars, exported>>

\* isNaN(value) || value < 0, on the cells that are not the name
NumericEditRejected(field, value) == field # "name" /\ (isNaN(value) \/ LtZero(value))

\* handleCellDoubleClick: the table is edited while no import is running
HandleCellDoubleClick ==
  /\ table = "agents"
  /\ ~isImportModalOpen
  /\ ~isProcessing
  /\ \E agent \in store, field \in EditableFields :
       /\ editingCell' = <<[agentId |-> agent.id, field |-> field]>>
       /\ editValue' = CellValue(agent, field)
  /\ UNCHANGED <<store, updates>>
  /\ UNCHANGED outsideCells

\* onChange of the input of the cell: setEditValue(e.target.value)
TypeIntoCell ==
  /\ table = "agents"
  /\ editingCell # <<>>
  /\ \E typed \in TypedTexts :
       /\ StringValue(typed) # editValue
       /\ editValue' = StringValue(typed)
  /\ UNCHANGED <<store, updates, editingCell>>
  /\ UNCHANGED outsideCells

\* handleCellEditSave, from Enter or from the blur of the input
HandleCellEditSave ==
  /\ table = "agents"
  /\ editingCell # <<>>
  /\ Len(updates) < MaxEdits
  /\ LET cell == editingCell[1]
         found == {a \in store : a.id = cell.agentId}
         value == NumberOfEditValue
     IN IF found = {} \/ NumericEditRejected(cell.field, value)
          THEN UNCHANGED <<store, updates, editingCell, editValue>>
          ELSE LET agent == CHOOSE a \in found : TRUE
                   updatedAgent ==
                     [agent EXCEPT ![cell.field] =
                        IF cell.field = "name" THEN editValue.text
                        ELSE IF cell.field = "openAccounts" THEN value.val
                        ELSE value]
               IN /\ store' = (store \ {agent}) \cup {updatedAgent}
                  /\ updates' = Append(updates, updatedAgent)
                  /\ editingCell' = <<>>
                  /\ editValue' = StringValue("")
  /\ UNCHANGED outsideCells

\* handleKeyPress with Escape
EscapeCell ==
  /\ table = "agents"
  /\ editingCell # <<>>
  /\ editingCell' = <<>>
  /\ editValue' = StringValue("")
  /\ UNCHANGED <<store, updates>>
  /\ UNCHANGED outsideCells

\* the texts imported before the cells are edited
AgentTexts ==
  LET plain == [cols |-> [k \in 1..Len(requiredFields(Agents)) |-> k], fancy |-> FALSE]
      good == [row |-> GoodRow(Agents), cut |-> 0, blank |-> FALSE]
      bad == [row |-> BadRow(Agents), cut |-> 0, blank |-> FALSE]
  IN {Text(Agents, plain, <<good>>), Text(Agents, plain, <<bad, good>>)}

\* the agent table with its import modal open
InitAgents ==
  /\ flow = Agents
  /\ clients = <<>>
  /\ store \in Stores(Agents)
  /\ csvData \in AgentTexts
  /\ Mounted
  /\ TableBehindModal
  /\ ViewMounted
  /\ FormUnmounted
  /\ NoCellEdited

\* an import, then inline edits
NextAgents ==
  \/ HandleImport \/ ProcessRow \/ Finish \/ Close
  \/ HandleCellDoubleClick \/ TypeIntoCell \/ HandleCellEditSave \/ EscapeCell

SpecAgents == InitAgents /\ [][NextAgents]_vars

\* ------------------------------------------------------------------------
\* AgentTable.handleExportCsv, and the file uploaded to AgentImportModal
\* ------------------------------------------------------------------------

\* how many agents the exported list holds
MaxExported == 2

Quote == "\""

\* the tokens of an agent name: a name may hold a comma
NameTokens(name) ==
  CASE name = "Smith, John" -> <<"Smith", Comma, Space, "John">>
    [] OTHER                -> <<name>>

\* String(n), as join(",") writes a number cell
NumberText(n) ==
  CASE n = Num(0)     -> "0"
    [] n = Num(700)   -> "7"
    [] n = Num(390)   -> "3.9"
    [] n = Num(5000)  -> "50"
    [] n = Num(10000) -> "100"
    [] n = Num(25050) -> "250.5"

\* typeof cell === "string" && cell.includes(",") ? `"${cell}"` : cell
ExportCell(toks) ==
  IF \E k \in 1..Len(toks) : toks[k] = Comma THEN <<Quote>> \o toks \o <<Quote>> ELSE toks

\* const csvContent, as lines of tokens: the header row, then one row per
\* agent of the list; the two commission cells come from the context
ExportCsv(list) ==
  <<JoinCells(<< <<"Agent Name">>, <<"Added Today">>, <<"Monthly Added">>,
                 <<"Open Accounts">>, <<"Total Deposits">>, <<"Commission Rate">>,
                 <<"Commission Amount">> >>)>>
  \o [k \in 1..Len(list) |->
        JoinCells(<< ExportCell(NameTokens(list[k].name)),
                     <<NumberText(list[k].addedToday)>>,
                     <<NumberText(list[k].monthlyAdded)>>,
                     <<NumberText(Num(list[k].openAccounts))>>,
                     <<NumberText(list[k].totalDeposits)>>,
                     <<"0%">>,
                     <<"0">> >>)]

\* the agents the lists are drawn from
AgentPool ==
  { [id |-> 1, name |-> "Alice", addedToday |-> Num(700), monthlyAdded |-> Num(5000),
     openAccounts |-> 0, totalDeposits |-> Num(10000)],
    [id |-> 2, name |-> "Smith, John", addedToday |-> Num(0), monthlyAdded |-> Num(700),
     openAccounts |-> 0, totalDeposits |-> Num(25050)],
    [id |-> 3, name |-> "Bob", addedToday |-> Num(390), monthlyAdded |-> Num(5000),
     openAccounts |-> 0, totalDeposits |-> Num(0)],
    [id |-> 4, name |-> "Zed", addedToday |-> Num(0), monthlyAdded |-> Num(0),
     openAccounts |-> 0, totalDeposits |-> Num(25050)] }

\* the agent table over a list of agents, the import modal open and empty
InitRoundTrip ==
  /\ flow = Agents
  /\ clients = <<>>
  /\ store \in {S \in SUBSET AgentPool : Cardinality(S) \in 1..MaxExported}
  /\ csvData = <<>>
  /\ Mounted
  /\ TableBehindModal
  /\ ViewMounted
  /\ FormUnmounted
  /\ NoCellEdited

\* handleExportCsv: the rows of filteredAgents, in the order the table shows
\* them, are written to the file
HandleExportCsv ==
  /\ table = "agents"
  /\ exported = <<>>
  /\ pc = "idle"
  /\ \E list \in [1..Cardinality(store) -> store] :
       /\ \A j \in 1..Len(list), k \in 1..Len(list) : j # k => list[j] # list[k]
       /\ exported' = list
  /\ UNCHANGED <<editingCell, editValue, updates>>
  /\ UNCHANGED <<importVars, tableVars, viewVars, formVars>>

\* handleFileUpload of the import modal with the exported file:
\* setCsvData(text)
HandleFileUpload ==
  /\ isOpen
  /\ exported # <<>>
  /\ csvData = <<>>
  /\ csvData' = ExportCsv(exported)
  /\ UNCHANGED <<pageVars, tableVars, flow, clients, store, error, success, successCount,
                 errorCount, isProcessing, progress, pc, lines, header, i, nSuccess, nError,
                 allWithdrawals, offset, calls, generated, batches, runs, runClients, isOpen>>

NextRoundTrip ==
  \/ HandleExportCsv \/ HandleFileUpload \/ HandleImport \/ ProcessRow \/ Finish \/ Close

SpecRoundTrip == InitRoundTrip /\ [][NextRoundTrip]_vars

\* ------------------------------------------------------------------------
\* Properties
\* ------------------------------------------------------------------------

Range(seq) == {seq[k] : k \in 1..Len(seq)}

\* the positions in lines of the data lines that are not blank
NonBlankRows == {k \in 2..Len(lines) : ~IsBlankLine(lines[k])}

\* those that pass every row check of the flow
ValidRows ==
  {k \in NonBlankRows : RowResult(flow, lines[k], header, clients, 0).kind = "accept"}

\* every record handed to the persistence operation or waiting for its batch
Handed == Range(calls) \cup Range(allWithdrawals)

\* C1: a run that passed the structural checks and ended without an
\* exception, on N data lines that are not blank of which V pass every row
\* check, reports V successes and N - V errors and has handed exactly V
\* records to addOrder / addDeposit / addWithdrawal / addAgent / batch.set.
C1_CountsMatchRows ==
  pc = "done" =>
    /\ successCount = Cardinality(ValidRows)
    /\ errorCount = Cardinality(NonBlankRows) - Cardinality(ValidRows)
    /\ Len(calls) = Cardinality(ValidRows)

C1_Witness ==
  /\ pc = "done"
  /\ successCount = 1
  /\ errorCount = 1
  /\ Len(calls) = 1
  /\ Cardinality(NonBlankRows) = 2

\* the required columns the first line of the text lacks, in declaration order
Lacking ==
  LET named == Range(ParseHeader(lines[1]))
  IN SelectSeq(requiredFields(flow), LAMBDA c : c \notin named)

\* C2: when the header lacks a required column, handleImport returns before
\* any data line is examined: nothing is persisted, no identifier is
\* generated, the message names exactly the lacking columns and
\* isProcessing is false.
C2_MissingColumnAborts ==
  (pc # "idle" /\ Len(lines) >= 2 /\ Lacking # <<>>) =>
    /\ pc = "structural"
    /\ ~isProcessing
    /\ error = "CSV is missing required fields: " \o JoinComma(Lacking)
    /\ (flow = Deposits /\ Lacking = <<"amount">>
          => error = "CSV is missing required fields: amount")
    /\ calls = <<>> /\ generated = <<>> /\ allWithdrawals = <<>> /\ batches = <<>>
    /\ store \in Stores(flow)
    /\ i = 0 /\ nSuccess = 0 /\ nError = 0
    /\ successCount = 0 /\ errorCount = 0

C2_Witness ==
  /\ pc = "structural"
  /\ flow = Deposits
  /\ Len(lines) = 2
  /\ error = "CSV is missing required fields: amount"

\* the string of the cell of line k under column name c
CellOf(k, c) == At(SplitTrim(lines[k]), indexOf(header, c))

BadNumber(n) == isNaN(n) \/ LtZero(n)

\* the data line at position k has an amount or price cell (in the agent
\* import: a count or total-deposits cell) that is negative or not a number
HasBadAmount(k) ==
  CASE flow = Orders -> BadNumber(parseFloat(CellOf(k, "price")))
    [] flow = Agents -> \/ BadNumber(parseInt(CellOf(k, "added today")))
                        \/ BadNumber(parseInt(CellOf(k, "monthly added")))
                        \/ BadNumber(parseFloat(CellOf(k, "total deposits")))
    [] OTHER         -> BadNumber(parseFloat(CellOf(k, "amount")))

GoodNumber(n) == ~n.nan /\ n.val >= 0

RecordAmountsGood(rec) ==
  IF flow = Agents
    THEN GoodNumber(rec.addedToday) /\ GoodNumber(rec.monthlyAdded)
         /\ GoodNumber(rec.totalDeposits)
    ELSE GoodNumber(rec.amount)

\* C3: no record with a negative or not-a-number amount or price (agents: a
\* count or the total deposits) is ever handed to the persistence operation,
\* and every data line examined so far that has such a cell was rejected.
C3_BadAmountNeverPersisted ==
  /\ \A rec \in Handed \cup store : RecordAmountsGood(rec)
  /\ (Running \/ pc \in {"done", "caught"}) =>
       LET examined == {k \in NonBlankRows : k <= i}
           bad == {k \in examined : HasBadAmount(k)}
       IN /\ nError >= Cardinality(bad)
          /\ nSuccess <= Cardinality(examined) - Cardinality(bad)

C3_Witness ==
  /\ pc = "done"
  /\ nError = 2
  /\ Cardinality({k \in NonBlankRows : HasBadAmount(k)}) = 2
  /\ \E k \in NonBlankRows : isNaN(parseFloat(CellOf(k, IF flow = Orders THEN "price" ELSE "amount")))
  /\ flow \in {Orders, Deposits, Withdrawals, WithdrawalsBatched}

BatchLens == [k \in 1..Len(batches) |-> Len(batches[k].recs)]

CeilDiv(a, b) == (a + b - 1) \div b

\* C4: in the batched withdrawal import no batch holds more than 450
\* records; the V accepted records go out in input order as ceil(V / 450)
\* batches, all but the last of exactly 450 (450, 450, 100 for V = 1000),
\* each record in exactly one batch, and no batch is built when V = 0.
C4_BatchesChunked ==
  /\ \A k \in 1..Len(batches) : BatchLens[k] \in 1..450
  /\ \A k \in 1..(Len(batches) - 1) : BatchLens[k] = 450
  /\ \A k \in 1..Len(batches) : \A j \in 1..BatchLens[k] :
       /\ 450 * (k - 1) + j <= Len(allWithdrawals)
       /\ batches[k].recs[j] = allWithdrawals[450 * (k - 1) + j]
  /\ pc = "done" =>
       /\ Len(batches) = CeilDiv(Len(allWithdrawals), 450)
       /\ Len(allWithdrawals) > 0 =>
            450 * (Len(batches) - 1) + BatchLens[Len(batches)] = Len(allWithdrawals)
       /\ Len(allWithdrawals) = 1000 => BatchLens = <<450, 450, 100>>
       /\ Len(allWithdrawals) = 0 => batches = <<>>

C4_Witness ==
  /\ pc = "done"
  /\ Len(allWithdrawals) = 1000
  /\ BatchLens = <<450, 450, 100>>

\* C5: when batch.commit fails for chunk k, the documents of the chunks
\* before k stay in the store, batch.set was called for no record past chunk
\* k and chunk k is the last batch built, and the run has ended in the catch
\* block: an error message is set, isProcessing is false, and the success
\* flag and the two counters are as they were before the run.
C5_CommitFailureKeepsEarlierChunks ==
  \A k \in 1..Len(batches) :
    batches[k].status = "failed" =>
      /\ k = Len(batches)
      /\ \A j \in 1..(k - 1) : batches[j].status = "committed"
      /\ store = CommitDocs({}, SubSeq(allWithdrawals, 1, 450 * (k - 1)))
      /\ k > 1 => store # {}
      /\ Len(calls) = 450 * (k - 1) + BatchLens[k]
      /\ pc = "caught"
      /\ error = "Error processing CSV data: commit failed"
      /\ ~isProcessing
      /\ success = FALSE /\ successCount = 0 /\ errorCount = 0

C5_Witness ==
  /\ Len(allWithdrawals) > 450
  /\ Len(batches) = 2
  /\ batches[1].status = "committed"
  /\ batches[2].status = "failed"
  /\ store # {}

\* C6: a row-level failure never ends a run in the catch block: only a failed
\* batch.commit does.
C6_RowFailureNeverAborts ==
  pc = "caught" => (batches # <<>> /\ batches[Len(batches)].status = "failed")

\* the payment-mode cell of a withdrawal row is read past the end of a short
\* row, and the run has ended in the catch block with rows left unexamined
C6_ShortRowAborts ==
  /\ pc = "caught"
  /\ batches = <<>>
  /\ i < TotalDataRows
  /\ CellOf(i + 1, "payment mode") = Undefined
  /\ successCount = 0 /\ errorCount = 0

\* the declared synonyms of the canonical labels, "" for any other text
CanonicalOf(lowered) ==
  CASE lowered \in {"crypto", "cryptocurrency", "bitcoin", "eth", "btc"} -> "Crypto"
    [] lowered \in {"online", "online banking", "internet banking"} -> "Online Banking"
    [] lowered \in {"ewallet", "e-wallet", "digital wallet", "wallet"} -> "Ewallet"
    [] OTHER -> ""

\* the loop body on the cells of line k with the payment-mode cell replaced
WithMode(k, label) ==
  LET values == SplitTrim(lines[k])
      changed == [values EXCEPT ![indexOf(header, "payment mode")] = label]
  IN CASE flow = Deposits    -> DepositRow(changed, header, clients, 0)
       [] flow = Withdrawals -> WithdrawalRow(changed, header, clients, 0)
       [] OTHER              -> WithdrawalBatchedRow(changed, header, clients, 0)

\* the data lines that are not blank and have a payment-mode cell
ModeRows == {k \in NonBlankRows : CellOf(k, "payment mode") # Undefined}

HasModeColumn == flow \in {Deposits, Withdrawals, WithdrawalsBatched}

\* what the loop body gives line k
ResultOf(k) == RowResult(flow, lines[k], header, clients, 0)

\* synonyms are accepted as their canonical label by flow f: a row with a
\* synonym cell fares as the same row with the canonical label, a row with
\* a canonical cell keeps it, a row with any other cell is rejected
SynonymsHonoured ==
  \A k \in ModeRows :
    LET cell == CellOf(k, "payment mode")
        label == CanonicalOf(toLowerCase(cell))
        res == ResultOf(k)
    IN IF includes(PaymentModes, cell)
         THEN res.kind = "accept" => res.rec.paymentMode = cell
       ELSE IF label # ""
         THEN res = WithMode(k, label)
       ELSE res.kind = "reject"

\* only the canonical labels are accepted
OnlyCanonical ==
  \A k \in ModeRows :
    LET cell == CellOf(k, "payment mode")
        res == ResultOf(k)
    IN IF includes(PaymentModes, cell)
         THEN res.kind = "accept" => res.rec.paymentMode = cell
       ELSE res.kind = "reject"

\* C7 as stated: in the deposit import and in both withdrawal imports a
\* payment-mode cell that is a declared synonym is accepted and stored as
\* its canonical label, a canonical label is stored unchanged, and any other
\* cell rejects the row.
C7_SynonymsInDepositsAndWithdrawals ==
  (HasModeColumn /\ (Running \/ pc \in {"done", "caught"})) =>
    /\ SynonymsHonoured
    /\ \A rec \in Handed : includes(PaymentModes, rec.paymentMode)

\* C7, amended: in both withdrawal imports a payment-mode cell whose
\* lower-cased text is a declared synonym is accepted and stored as its
\* canonical label, a canonical label is stored unchanged, and any other
\* cell rejects the row; the deposit import accepts the three canonical
\* labels only and rejects every other cell, the synonyms included.
C7_SynonymsInWithdrawalsOnly ==
  (HasModeColumn /\ (Running \/ pc \in {"done", "caught"})) =>
    /\ flow # Deposits => SynonymsHonoured
    /\ flow = Deposits => OnlyCanonical
    /\ \A rec \in Handed : includes(PaymentModes, rec.paymentMode)

C7_Witness ==
  /\ flow = Withdrawals
  /\ pc = "done"
  /\ \E k \in ModeRows : CellOf(k, "payment mode") = "btc" /\ ResultOf(k).kind = "accept"
  /\ \E k \in ModeRows : CellOf(k, "payment mode") = "Wire" /\ ResultOf(k).kind = "reject"
  /\ \E rec \in Range(calls) : rec.shopId = "S2" /\ rec.paymentMode = "Crypto"

\* the clients whose shop ID is that of the record or cell
Matching(shopId) == {k \in 1..Len(clients) : clients[k].shopId = shopId}

\* the data lines examined so far whose shop ID matches no client
UnmatchedExamined == {k \in NonBlankRows : k <= i /\ Matching(CellOf(k, "shop id")) = {}}

\* a client list in which the shop ID of line k has a client
Knowing(k) == <<[shopId |-> CellOf(k, "shop id"), clientName |-> "Known", agent |-> "Kay"]>>

\* C8: in the order and deposit imports a row whose shop ID matches no client
\* is rejected and counted as an error, and every record persisted carries
\* the clientName and agent of the first matching client; in the withdrawal
\* imports a row fares the same whether or not its shop ID has a client, and
\* the record of an unmatched row carries 'Unknown Client' and 'Unknown Agent'.
C8_TolerancePerEntity ==
  (Running \/ pc \in {"done", "caught"}) =>
    /\ flow \in {Orders, Deposits} =>
         /\ \A k \in NonBlankRows :
              Matching(CellOf(k, "shop id")) = {} => ResultOf(k) = Reject
         /\ nError >= Cardinality(UnmatchedExamined)
         /\ \A rec \in Handed :
              /\ Matching(rec.shopId) # {}
              /\ LET first == clients[CHOOSE k \in Matching(rec.shopId) :
                                         \A j \in Matching(rec.shopId) : k <= j]
                 IN rec.clientName = first.clientName /\ rec.agent = first.agent
    /\ flow \in {Withdrawals, WithdrawalsBatched} =>
         /\ \A k \in NonBlankRows :
              ResultOf(k).kind = RowResult(flow, lines[k], header, Knowing(k), 0).kind
         /\ \A rec \in Handed :
              Matching(rec.shopId) = {} =>
                rec.clientName = "Unknown Client" /\ rec.agent = "Unknown Agent"

C8_Witness ==
  /\ flow = Withdrawals
  /\ pc = "done"
  /\ clients = <<Client1>>
  /\ \E rec \in Range(calls) :
       rec.shopId = "S2" /\ rec.clientName = "Unknown Client" /\ rec.agent = "Unknown Agent"
  /\ \E rec \in Range(calls) : rec.shopId = "S1" /\ rec.clientName = "Acme"

\* the text of the example
ExampleText ==
  << <<"shop id", ",", "date", ",", "amount", ",", "payment mode">>,
     <<"S1", ",", "2023-01-01", ",", "100.00", ",", "Crypto">>,
     <<"S2", ",", "bad", ",", "-5", ",", "Unknown">> >>

\* the records the collection has gained
Gained == {rec \in store : rec # Existing(flow)}

\* C9: a withdrawal import of the example text against an empty client list
\* that ends by reporting its counts has persisted exactly one withdrawal,
\* of shop ID S1, client name 'Unknown Client', agent 'Unknown Agent',
\* amount 100.00 and payment mode Crypto, and reports 1 success, 1 error.
C9_ExampleScenario ==
  (/\ flow \in {Withdrawals, WithdrawalsBatched}
   /\ csvData = ExampleText
   /\ clients = <<>>
   /\ pc # "idle") =>
     /\ pc # "structural"
     /\ pc = "caught" => (batches # <<>> /\ batches[Len(batches)].status = "failed")
     /\ pc = "done" =>
          /\ successCount = 1
          /\ errorCount = 1
          /\ Len(calls) = 1
          /\ Gained = {calls[1]}
          /\ calls[1].shopId = "S1"
          /\ calls[1].clientName = "Unknown Client"
          /\ calls[1].agent = "Unknown Agent"
          /\ calls[1].amount = Num(10000)
          /\ calls[1].paymentMode = "Crypto"

C9_Witness ==
  /\ flow = WithdrawalsBatched
  /\ csvData = ExampleText
  /\ clients = <<>>
  /\ pc = "done"
  /\ successCount = 1
  /\ errorCount = 1
  /\ Cardinality(Gained) = 1

C10_SecondOverwritesFirst ==
  /\ flow = WithdrawalsBatched
  /\ pc = "done"
  /\ successCount = 2
  /\ Len(calls) = 2
  /\ calls[1].id = calls[2].id
  /\ Cardinality(Gained) = 1

\* the number of lines of the text from its first to its last line that is
\* not blank; 0 for a blank text
TrimmedLineCount ==
  LET solid == {k \in 1..Len(csvData) : csvData[k] # <<>> /\ \E t \in Range(csvData[k]) : t # Space}
  IN IF solid = {} THEN 0
     ELSE Max(solid) - (CHOOSE k \in solid : \A j \in solid : k <= j) + 1

\* nothing was examined, generated, handed over or stored
NothingDone ==
  /\ calls = <<>> /\ generated = <<>> /\ allWithdrawals = <<>> /\ batches = <<>>
  /\ store \in Stores(flow)
  /\ i = 0 /\ nSuccess = 0 /\ nError = 0
  /\ successCount = 0 /\ errorCount = 0

\* C11: a text whose trimmed content has fewer than two lines makes
\* handleImport return with 'CSV must contain at least a header row and one
\* data row', no row examined, nothing persisted, isProcessing false; with
\* a blank text the run never starts and isProcessing stays false.
C11_TooFewLinesAborts ==
  /\ (pc # "idle" /\ TrimmedLineCount < 2) =>
       /\ pc = "structural"
       /\ error = "CSV must contain at least a header row and one data row"
       /\ ~isProcessing
       /\ NothingDone
  /\ TrimmedLineCount = 0 =>
       /\ pc = "idle"
       /\ ~isProcessing
       /\ NothingDone

C11_Witness ==
  /\ pc = "structural"
  /\ Len(csvData) = 3
  /\ TrimmedLineCount = 1
  /\ error = "CSV must contain at least a header row and one data row"
  /\ ~isProcessing

\* the loop body of the flow on a row of cells
ResultOn(values) ==
  CASE flow = Orders             -> OrderRow(values, header, clients, 0)
    [] flow = Deposits           -> DepositRow(values, header, clients, 0)
    [] flow = Withdrawals        -> WithdrawalRow(values, header, clients, 0)
    [] flow = WithdrawalsBatched -> WithdrawalBatchedRow(values, header, clients, 0)
    [] flow = Agents             -> AgentRow(values, header)

\* the cells of line k with the cell under column c replaced
WithCell(k, c, text) == [SplitTrim(lines[k]) EXCEPT ![indexOf(header, c)] = text]

HasDateColumn == flow \in {Orders, Deposits, Withdrawals, WithdrawalsBatched}

\* the date cell is one the parse of the flow accepts
DateParses(cell) ==
  IF flow = Deposits THEN ParseMDY(cell) # "" ELSE NewDate(cell) # ""

\* the data lines with a date cell that the parse of the flow refuses
BadDateRows ==
  {k \in NonBlankRows : CellOf(k, "date") # Undefined /\ ~DateParses(CellOf(k, "date"))}

\* C12: in the order, deposit and withdrawal imports a row whose date cell
\* cannot be parsed fares as the same row with a date that parses, and the
\* record of such a row carries the current date.
C12_BadDateBecomesToday ==
  (HasDateColumn /\ (Running \/ pc \in {"done", "caught"})) =>
    /\ \A k \in BadDateRows :
         LET res == ResultOf(k)
         IN /\ res.kind = ResultOn(WithCell(k, "date", "03/15/2025")).kind
            /\ res.kind = "accept" => res.rec.date = Today
    /\ \A rec \in Handed : rec.date \in {Today, "2023-01-01", "2025-03-15"}

\* an order was persisted with the text of its date cell, which is no date
C12_OrderKeepsBadDate ==
  /\ flow = Orders
  /\ pc = "done"
  /\ \E rec \in Range(calls) : rec.date = "bad"

\* C13: once the loop body has run for data row i - 1, whether the row was
\* accepted or rejected, progress is round((i - 1) / totalDataRows * 100),
\* totalDataRows the number of lines less one.
C13_ProgressAfterEveryRow ==
  (pc \in {"rows", "yield", "finish", "commit", "done"} /\ i > 1) =>
    progress = RoundPercent(i - 1, Len(lines) - 1)

\* a run has reported its counts with the progress of an earlier row: the
\* last row was rejected and setProgress was not reached for it
C13_RunEndsBelowHundred ==
  /\ pc = "done"
  /\ i = Len(lines)
  /\ errorCount > 0
  /\ successCount > 0
  /\ progress = 50

\* C14: handleImport is called only when no call of it is in flight, and
\* while one is in flight isProcessing is true and the Import button is
\* disabled; the locals of a run (its lines, header, counters and
\* accumulated records) are reset only by the start of the next run.
C14_OneRunInFlight ==
  /\ [](Running => (isProcessing /\ ~ImportEnabled))
  /\ [][runs' # runs => ~Running]_vars
  /\ [][Running => (/\ lines' = lines /\ header' = header /\ i' >= i
                     /\ nSuccess' >= nSuccess /\ nError' >= nError
                     /\ Len(allWithdrawals') >= Len(allWithdrawals))]_vars

C14_Witness ==
  /\ runs = 2
  /\ pc = "yield"
  /\ isProcessing
  /\ isOpen
  /\ ~IsBlankText(csvData)

\* the data lines of the run that pass every row check against the clients
\* the run captured
RunValidRows ==
  {k \in NonBlankRows : RowResult(flow, lines[k], header, runClients, 0).kind = "accept"}

\* the record without its identifier
Unnumbered(rec) == [rec EXCEPT !.id = 0]

\* C15: a run works on the text and the client list of the moment Import
\* was pressed; edits of the text, removal of the file, changes of the
\* client list and the closing of the dialog while the run is in flight
\* leave them alone, and the run goes through every data line: it ends only
\* after the last line, with the outcome those lines have against the
\* captured client list.
C15_RunNotAltered ==
  /\ [][(runs' # runs /\ ~IsBlankText(csvData))
          => (lines' = TrimSplitLines(csvData) /\ runClients' = clients)]_vars
  /\ [][Running => (lines' = lines /\ header' = header /\ runClients' = runClients)]_vars
  /\ [](pc \in {"finish", "commit", "done", "caught"} =>
          /\ i = Len(lines)
          /\ nSuccess = Cardinality(RunValidRows)
          /\ nError = Cardinality(NonBlankRows) - Cardinality(RunValidRows)
          /\ {Unnumbered(rec) : rec \in Range(calls) \cup Range(allWithdrawals)}
               = {Unnumbered(RowResult(flow, lines[k], header, runClients, 0).rec) : k \in RunValidRows})
  /\ [](pc = "caught" => (batches # <<>> /\ batches[Len(batches)].status = "failed"))

C15_Witness ==
  /\ pc = "done"
  /\ ~isOpen
  /\ csvData = <<>>
  /\ clients # runClients
  /\ Len(lines) = LongLen + 1
  /\ i = Len(lines)
  /\ nSuccess > 0
  /\ nError > 0

\* line i + 1, the one the next pass of the row loop examines, is rejected
NextRowRejected ==
  /\ pc = "rows"
  /\ ~IsBlankLine(lines[i + 1])
  /\ RowResult(flow, lines[i + 1], header, ClientsOfRun, 0).kind = "reject"

\* C16: the pass of the row loop over a rejected row adds one to the error
\* counter and leaves the store, the records handed to the store, the
\* accumulated records and the success counter as they were, and draws no
\* identifier: identifiers are drawn for accepted rows only, one each.
C16_RejectedRowOnlyCounts ==
  /\ [][(NextRowRejected /\ i' = i + 1)
          => /\ nError' = nError + 1
             /\ store' = store
             /\ calls' = calls
             /\ allWithdrawals' = allWithdrawals
             /\ nSuccess' = nSuccess
             /\ generated' = generated]_vars
  /\ [](flow # Agents => Len(generated) = nSuccess)

C16_Witness ==
  /\ pc = "done"
  /\ flow # Agents
  /\ nError > 0
  /\ nSuccess > 0
  /\ Len(generated) = nSuccess
  /\ Cardinality(store) = nSuccess

\* C17: while the user is a viewer no step of the orders table or of the
\* withdrawals table opens the add / edit modal or the bulk modal or calls
\* deleteOrder / deleteWithdrawal; in the agent table no step calls
\* deleteAgent while the user is a viewer, and no step opens the CSV import
\* while the user is not an admin.
C17_RoleGating ==
  /\ [][(isViewer /\ table \in {"orders", "withdrawals"})
          => /\ isModalOpen' => isModalOpen
             /\ isBulkModalOpen' => isBulkModalOpen
             /\ deleted' = deleted
             /\ listed' = listed]_vars
  /\ [][(isViewer /\ table = "agents") => (deleted' = deleted /\ listed' = listed)]_vars
  /\ [][(~isAdmin /\ table = "agents") => (isImportModalOpen' => isImportModalOpen)]_vars

C17_Witness ==
  /\ isViewer
  /\ table = "orders"
  /\ isExportModalOpen
  /\ ~isModalOpen
  /\ ~isBulkModalOpen
  /\ listed = ListedIds
  /\ deleted = <<>>

\* the amount or price of a written record is above zero
AboveZero(n) == ~n.nan /\ n.val > 0

\* the data line at position k has an amount or price cell equal to zero
HasZeroAmount(k) ==
  flow # Agents /\ parseFloat(CellOf(k, IF flow = Orders THEN "price" ELSE "amount")) = Num(0)

\* the data line at position k of an agent import has a name and three
\* numeric cells equal to zero
IsZeroAgentRow(k) ==
  /\ flow = Agents
  /\ CellOf(k, "agent name") \notin {"", Undefined}
  /\ parseInt(CellOf(k, "added today")) = Num(0)
  /\ parseInt(CellOf(k, "monthly added")) = Num(0)
  /\ parseFloat(CellOf(k, "total deposits")) = Num(0)

\* what C18 asks of every state of a run
ThresholdsKept ==
  /\ \A rec \in Handed :
       IF flow = Agents THEN RecordAmountsGood(rec) ELSE AboveZero(rec.amount)
  /\ pc \in {"done", "caught"} =>
       \A k \in NonBlankRows :
         LET res == RowResult(flow, lines[k], header, runClients, 0)
         IN /\ HasZeroAmount(k) => res.kind # "accept"
            /\ IsZeroAgentRow(k) => res.kind = "accept"
  /\ pc = "done" =>
       /\ nError >= Cardinality({k \in NonBlankRows : HasZeroAmount(k)})
       /\ nSuccess >= Cardinality({k \in NonBlankRows : IsZeroAgentRow(k)})

\* C18: in the order, deposit and withdrawal imports a data line whose
\* price or amount is exactly 0 is rejected and every record written has an
\* amount above 0; in the agent import a line with a name and the value 0
\* in all three numeric cells is accepted and every record written has
\* values of 0 or more.
C18_ThresholdsPerField == []ThresholdsKept

C18_Witness ==
  /\ pc = "done"
  /\ flow = Agents
  /\ \E k \in NonBlankRows : IsZeroAgentRow(k)
  /\ \E rec \in Range(calls) :
       rec.addedToday = Num(0) /\ rec.monthlyAdded = Num(0) /\ rec.totalDeposits = Num(0)
  /\ nError > 0

\* the name typed in cell k of the header line, spaces around it dropped
RawName(k) == Concat(TrimLine(split(lines[1])[k]))

\* the first header cell that holds column c
PosOf(c) == CHOOSE p \in 1..Len(header) : header[p] = c /\ \A q \in 1..(p - 1) : header[q] # c

\* the data line at position k has one cell per header cell
FullRow(k) == Len(split(lines[k])) = Len(header)

\* the data line at position k with its columns put in the order of
\* requiredFields and written plainly: the same row of the same table under
\* the header requiredFields
Reordered(k) ==
  LET cells == SplitTrim(lines[k])
      fields == requiredFields(flow)
  IN JoinCells([c \in 1..Len(fields) |-> CellTokens(cells[PosOf(fields[c])], FALSE)])

\* the header line is not in the order of requiredFields, or not written
\* in lower case without spaces
Rearranged ==
  \/ \E c \in 1..Len(requiredFields(flow)) : PosOf(requiredFields(flow)[c]) # c
  \/ \E k \in 1..Len(header) : RawName(k) # header[k]

\* what C19 asks of every state of a run
LocatedByName ==
  LET fields == requiredFields(flow)
      named(c) == \E k \in 1..Len(split(lines[1])) : RawName(k) \in {c, Typed(c)}
      same(k) == RowResult(flow, lines[k], header, runClients, 0)
                   = RowResult(flow, Reordered(k), fields, runClients, 0)
  IN /\ (pc = "structural" /\ Len(lines) >= 2) => \E c \in Range(fields) : ~named(c)
     /\ (pc = "rows" /\ i = 1) =>
          /\ \A c \in Range(fields) : named(c) /\ includes(header, c)
          /\ \A k \in NonBlankRows : FullRow(k) => same(k)
     /\ (pc = "done" /\ \A k \in NonBlankRows : FullRow(k)) =>
          LET twin == [k \in NonBlankRows |->
                         RowResult(flow, Reordered(k), fields, runClients, 0)]
              valid == {k \in NonBlankRows : twin[k].kind = "accept"}
          IN /\ successCount = Cardinality(valid)
             /\ errorCount = Cardinality(NonBlankRows) - Cardinality(valid)
             /\ {Unnumbered(rec) : rec \in Handed} = {Unnumbered(twin[k].rec) : k \in valid}

\* C19: a header that has every required column under its name, in any
\* order, letter case and surrounding whitespace, passes the header check,
\* and only such a header does; every data line with one cell per column
\* then has, from the start of the row loop, the outcome, and on acceptance
\* the record, of the same row written in the order of requiredFields under
\* the plain header, and a run on such lines reports the counts and writes
\* the records of the reordered text.
C19_ColumnsByName == []LocatedByName

C19_Witness ==
  /\ pc = "done"
  /\ Rearranged
  /\ PosOf(requiredFields(flow)[1]) = Len(header)
  /\ RawName(1) # header[1]
  /\ \A k \in NonBlankRows : FullRow(k)
  /\ nSuccess > 0
  /\ nError > 0

\* C20: the modal's successCount and errorCount change only on the step
\* that ends a run normally: after the last line and, in the batched flow,
\* after the last batch was committed, and they take the run's final
\* tallies; every run that ends normally takes that step once; the steps of
\* the row loop, of the batch loop and of a run that ends with a structural
\* or commit error leave both as they were.
C20_CountsWrittenOnceAtEnd ==
  /\ [][(successCount' # successCount \/ errorCount' # errorCount)
          => /\ pc \in {"finish", "commit"}
             /\ pc' = "done"
             /\ i = Len(lines)
             /\ \A k \in 1..Len(batches') : batches'[k].status = "committed"]_vars
  /\ [][(pc # "done" /\ pc' = "done")
          => /\ successCount' = nSuccess
             /\ errorCount' = nError
             /\ nSuccess + nError = Cardinality(NonBlankRows)]_vars
  /\ [][(pc = "done" /\ pc' # "done") => runs' = runs + 1]_vars
  /\ [][pc' \in {"rows", "yield", "finish", "commit", "structural", "caught"}
          => UNCHANGED <<successCount, errorCount>>]_vars

C20_Witness ==
  /\ runs = 2
  /\ pc = "yield"
  /\ nSuccess > 0
  /\ nError > 0
  /\ successCount > nSuccess
  /\ errorCount > 0

\* C22: every run that has set isProcessing ends with isProcessing cleared,
\* after normal completion, an exception in a row or a failed commit; a run
\* stopped by a structural check never leaves it set; once a run has ended
\* isProcessing is false.
C22_RunEnds ==
  /\ isProcessing ~> ~isProcessing
  /\ [](isProcessing => Running)
  /\ [](Ended => ~isProcessing)

C22_Witness ==
  /\ pc = "caught"
  /\ flow = Withdrawals
  /\ nSuccess = 1
  /\ ~isProcessing
  /\ error # ""

\* C23: whenever no run is in progress, the success flag and a non-empty
\* error message are not both set.
C23_SuccessExcludesError == ~Running => ~(success /\ error # "")

\* a run of a flow other than the deposit import has ended with no row
\* accepted: the success banner and the error are both shown
C23_BannerWithError ==
  /\ pc = "done"
  /\ flow # Deposits
  /\ successCount = 0
  /\ success
  /\ error = NoValidMessage(flow)

\* the deposit import alone keeps the two apart
C23_DepositsExclusive == (flow = Deposits /\ ~Running) => ~(success /\ error # "")

\* the part of C24 on the range and the direction of progress: within
\* 0..100 at every state, and no step of a run lowers it
C24_ProgressMonotone ==
  /\ [](progress \in 0..100)
  /\ [][Running => progress' >= progress]_vars

\* C24: progress stays within 0..100 and never decreases during a run, and
\* a run that has completed normally, its counts reported, shows 100.
C24_ProgressEndsAtHundred ==
  /\ [](progress \in 0..100)
  /\ [][Running => progress' >= progress]_vars
  /\ [](pc = "done" => progress = 100)

\* a run whose rows were all rejected has reported its counts with the
\* progress still 0
C24_RunEndsAtZero ==
  /\ pc = "done"
  /\ errorCount = 2
  /\ successCount = 0
  /\ progress = 0

\* what the loop body of the local and of the batched withdrawal import
\* gives line k
LocalOn(k) == RowResult(Withdrawals, lines[k], header, runClients, 0)

BatchedOn(k) == RowResult(WithdrawalsBatched, lines[k], header, runClients, 0)

\* the fields C25 compares
Compared(rec) ==
  <<rec.shopId, rec.clientName, rec.agent, rec.amount, rec.paymentMode>>

\* line k fares the same in both withdrawal imports
SameInBoth(k) ==
  /\ LocalOn(k).kind = BatchedOn(k).kind
  /\ LocalOn(k).kind = "accept" => Compared(LocalOn(k).rec) = Compared(BatchedOn(k).rec)

\* C25: on every text and client list the local withdrawal import accepts
\* the rows the batched one accepts, with the same shopId, clientName, agent,
\* amount and paymentMode, and a run of it that passed the structural checks
\* reports the counts the batched loop gives the text.
C25_WithdrawalImportsAgree ==
  (flow = Withdrawals /\ pc \in {"done", "caught"}) =>
    LET valid == {k \in NonBlankRows : BatchedOn(k).kind = "accept"}
    IN /\ \A k \in NonBlankRows : SameInBoth(k)
       /\ pc = "done"
       /\ successCount = Cardinality(valid)
       /\ errorCount = Cardinality(NonBlankRows) - Cardinality(valid)

\* the local import has stopped in its catch block on a line the batched
\* import rejects and counts
C25_LocalThrowsBatchedRejects ==
  /\ flow = Withdrawals
  /\ pc = "caught"
  /\ LocalOn(i + 1) = Throw
  /\ BatchedOn(i + 1) = Reject
  /\ nSuccess = 1

\* on texts whose data lines have one cell per column the two agree
C25_AgreeOnFullRows ==
  (flow = Withdrawals /\ pc \in {"done", "caught"} /\ \A k \in NonBlankRows : FullRow(k)) =>
    LET valid == {k \in NonBlankRows : BatchedOn(k).kind = "accept"}
    IN /\ \A k \in NonBlankRows : SameInBoth(k)
       /\ pc = "done"
       /\ successCount = Cardinality(valid)
       /\ errorCount = Cardinality(NonBlankRows) - Cardinality(valid)

\* what the claims about the views compare the list with: the search is
\* written from its description, contains ignoring case
ContainsIgnoringCase(cell, search) ==
  LET u == CodeUnits(cell)
      t == CodeUnits(search)
  IN \E k \in 0..(Len(u) - Len(t)) :
       LowerUnits(SubSeq(u, k + 1, k + Len(t))) = LowerUnits(t)

PassesFilters(o) ==
  /\ \/ ContainsIgnoringCase(o.shopId, searchTerm)
     \/ ContainsIgnoringCase(o.clientName, searchTerm)
     \/ ContainsIgnoringCase(o.agent, searchTerm)
     \/ table = "orders" /\ ContainsIgnoringCase(o.location, searchTerm)
  /\ statusFilter # "all" =>
       statusFilter = (IF table = "orders" THEN o.status ELSE o.paymentMode)
  /\ agentFilter # "all" => o.agent = agentFilter

\* b does not sort strictly before a in the ascending order of the sort field
NotAfter(a, b) ==
  IF sortField \in {"price", "amount"}
    THEN a.amount.val <= b.amount.val
    ELSE LET text(o) == CodeUnits(IF FieldOf(o, sortField) = "<null>" THEN ""
                                  ELSE FieldOf(o, sortField))
         IN ~StringLess(text(b), text(a))

\* C21: in a view, filteredOrders holds exactly the records of the current
\* list that contain the search term ignoring case and pass the status and
\* agent filters, each once, ordered by the sort field in the sort direction
C21_FilteredExactlyAndOrdered ==
  table \in ViewTables =>
    LET passing == {o \in Range(orders) : PassesFilters(o)}
    IN /\ Range(filteredOrders) = passing
       /\ Len(filteredOrders) = Cardinality(passing)
       /\ \A j \in 1..Len(filteredOrders), k \in 1..Len(filteredOrders) :
            j < k => IF sortDirection = "asc"
                       THEN NotAfter(filteredOrders[j], filteredOrders[k])
                       ELSE NotAfter(filteredOrders[k], filteredOrders[j])

\* a search typed in capitals and a status filter left two of the records of
\* a list the context has added to, sorted by price
C21_Witness ==
  /\ table = "orders"
  /\ changes > 0
  /\ searchTerm = "RO"
  /\ statusFilter = "Processing"
  /\ sortField = "price"
  /\ Len(orders) = 4
  /\ Len(filteredOrders) = 2

\* C26: in a view, currentPage is within 1..max(1, totalPages), the page
\* shown is not empty while the filtered list is not, and every page link
\* is a page number in 1..totalPages
C26_PageWithinRange ==
  table \in ViewTables =>
    /\ currentPage \in 1..(IF totalPages > 1 THEN totalPages ELSE 1)
    /\ filteredOrders # <<>> => paginatedOrders # <<>>
    /\ PageLinks \subseteq 1..totalPages

\* the second page was showing when a search left fewer records than one
\* page holds: the page shown is empty although records pass the search
C26_PagePastTheEnd ==
  /\ table \in ViewTables
  /\ searchTerm # ""
  /\ currentPage = 2
  /\ totalPages = 1
  /\ filteredOrders # <<>>
  /\ paginatedOrders = <<>>

\* Next pressed over an empty list: Math.min(2, 0)
C26_PageZero ==
  /\ table \in ViewTables
  /\ filteredOrders = <<>>
  /\ currentPage = 0

\* what holds of the pagination: the links are page numbers in
\* 1..totalPages, a change of the page size sets currentPage to 1, and
\* Previous, Next and the links, pressed while currentPage is within
\* 1..totalPages, leave it there
C26_ControlsWithinRange ==
  /\ [](table \in ViewTables => PageLinks \subseteq 1..totalPages)
  /\ [][itemsPerPage' # itemsPerPage => currentPage' = 1]_vars
  /\ [][(currentPage \in 1..totalPages /\ currentPage' # currentPage)
          => currentPage' \in 1..totalPages]_vars

\* the amount is a number strictly greater than 0
AmountAboveZero(a) == ~a.nan /\ a.val > 0

\* the shop ID is not empty and is that of a client
ShopOfAClient(sid) == sid # "" /\ \E k \in 1..Len(clients) : clients[k].shopId = sid

\* C27: the single-withdrawal form never hands addWithdrawal or
\* updateWithdrawal an amount that is not a number above 0 or a shop ID that
\* is empty or of no client; on such input handleSubmit persists nothing,
\* leaves the modal open and leaves isSubmitting false
C27_InvalidNeverPersisted ==
  /\ [][persisted' # persisted =>
          LET rec == persisted'[Len(persisted')].rec
          IN AmountAboveZero(rec.amount) /\ ShopOfAClient(rec.shopId)]_vars
  /\ [][(HandleSubmit /\ ~(AmountAboveZero(formAmount) /\ ShopOfAClient(formShopId)))
          => (persisted' = persisted /\ isModalOpen' /\ ~isSubmitting')]_vars

\* in add mode, the amount field was cleared after a client was chosen:
\* addWithdrawal was called with the not-a-number amount
C27_NaNPersisted ==
  /\ persisted # <<>>
  /\ persisted[Len(persisted)].op = "add"
  /\ persisted[Len(persisted)].rec.amount = NaN
  /\ ShopOfAClient(persisted[Len(persisted)].rec.shopId)

\* what holds of the form: no call carries an amount that is zero or below
\* or a shop ID that is empty or of no client, and a submit with such input
\* changes only the two messages
C27_NonPositiveAndShopRejected ==
  /\ [][persisted' # persisted =>
          LET rec == persisted'[Len(persisted')].rec
          IN ~LeqZero(rec.amount) /\ ShopOfAClient(rec.shopId)]_vars
  /\ [][(HandleSubmit /\ (LeqZero(formAmount) \/ ~ShopOfAClient(formShopId)))
          => (persisted' = persisted /\ isModalOpen' /\ ~isSubmitting'
              /\ store' = store)]_vars

\* the form is open in edit mode on a withdrawal the bulk import persisted,
\* and holds its fields as they were imported
EditingImportedUnchanged ==
  /\ isModalOpen
  /\ modalMode = "edit"
  /\ \E r \in store : r.id = selected
  /\ SelectedWithdrawal \in Range(calls)
  /\ withdrawalData = SelectedWithdrawal

\* C28: a withdrawal the bulk import persisted, opened in the form in edit
\* mode and submitted with its fields unchanged, passes validation and is
\* handed to updateWithdrawal, whether or not its shop ID is that of a client
C28_ImportedCanBeResaved ==
  [][(HandleSubmit /\ EditingImportedUnchanged)
       => persisted' = Append(persisted, [op |-> "edit", rec |-> SelectedWithdrawal])]_vars

\* an imported withdrawal of a shop that is no client was submitted
\* unchanged: validateShopId refused it and nothing was persisted
C28_UnknownShopRefused ==
  /\ EditingImportedUnchanged
  /\ ~ShopOfAClient(formShopId)
  /\ formClientName = "Unknown Client"
  /\ shopIdError = "Client with this Shop ID does not exist"
  /\ persisted = <<>>
  /\ ~isSubmitting

\* what holds: an imported withdrawal whose shop ID is that of a client is
\* handed to updateWithdrawal unchanged
C28_KnownShopCanBeResaved ==
  [][(HandleSubmit /\ EditingImportedUnchanged /\ ShopOfAClient(formShopId))
       => persisted' = Append(persisted, [op |-> "edit", rec |-> SelectedWithdrawal])]_vars

\* an imported withdrawal of a client was resaved unchanged
C28_KnownShopResaved ==
  /\ persisted # <<>>
  /\ persisted[Len(persisted)].op = "edit"
  /\ persisted[Len(persisted)].rec \in Range(calls)

\* the numbers of an agent are numbers, none below zero
AgentNumbersKept(a) ==
  /\ ~isNaN(a.addedToday) /\ ~LtZero(a.addedToday)
  /\ ~isNaN(a.monthlyAdded) /\ ~LtZero(a.monthlyAdded)
  /\ a.openAccounts >= 0
  /\ ~isNaN(a.totalDeposits) /\ ~LtZero(a.totalDeposits)

\* the record handed to updateAgent differs from the agent of that id in
\* one editable cell at most
OneEditableCellChanged(new) ==
  \E a \in store, f \in EditableFields : a.id = new.id /\ new = [a EXCEPT ![f] = new[f]]

\* a save of a numeric cell whose value is not a number or is below zero
\* leaves the collection alone and the cell in edit mode; Escape leaves the
\* collection alone and calls no updateAgent
EditsKept ==
  /\ [][updates' # updates => OneEditableCellChanged(updates'[Len(updates')])]_vars
  /\ [][(HandleCellEditSave /\ editingCell[1].field # "name"
           /\ (isNaN(NumberOfEditValue) \/ LtZero(NumberOfEditValue)))
          => (store' = store /\ updates' = updates /\ editingCell' = editingCell)]_vars
  /\ [][EscapeCell => (store' = store /\ updates' = updates)]_vars

\* C29: after imports and inline edits every agent has a name that is not
\* empty and numbers that are not below zero; an edit changes one of name,
\* addedToday, monthlyAdded, openAccounts; an invalid numeric edit leaves
\* the agent alone and the cell in edit mode; Escape calls no updateAgent
C29_AgentsWellFormed ==
  /\ [](flow = Agents => \A a \in store : a.name # "" /\ AgentNumbersKept(a))
  /\ EditsKept

\* the name cell of an imported agent was cleared and saved: updateAgent was
\* handed an agent without a name
C29_EmptyNameSaved ==
  /\ flow = Agents
  /\ updates # <<>>
  /\ updates[Len(updates)].name = ""
  /\ updates[Len(updates)] \in store
  /\ calls # <<>>

\* what holds: the numbers of every agent stay numbers that are not below
\* zero, and the edits are as the claim states them
C29_NumbersWellFormed ==
  /\ [](flow = Agents => \A a \in store : AgentNumbersKept(a))
  /\ EditsKept

\* a numeric cell was saved, and another save was refused with the cell
\* left in edit mode
C29_NumericEditRefused ==
  /\ updates # <<>>
  /\ editingCell # <<>>
  /\ editingCell[1].field # "name"
  /\ editValue = StringValue("-5")

\* the import of the exported file has ended
RoundTripEnded == exported # <<>> /\ csvData # <<>> /\ pc \in {"done", "structural", "caught"}

\* the agents handed to addAgent are those of the exported rows, in order
SameAgents(list) ==
  /\ Len(calls) = Len(list)
  /\ \A k \in 1..Len(list) :
       /\ calls[k].name = list[k].name
       /\ calls[k].addedToday = list[k].addedToday
       /\ calls[k].monthlyAdded = list[k].monthlyAdded
       /\ calls[k].totalDeposits = list[k].totalDeposits

\* C30: the file handleExportCsv writes for a list of agents passes the
\* header check of the agent import, and its import hands addAgent one agent
\* per exported agent, with the same name, addedToday, monthlyAdded and
\* totalDeposits, and rejects no row
C30_ExportImportRoundTrip ==
  RoundTripEnded =>
    /\ pc = "done"
    /\ SameAgents(exported)
    /\ errorCount = 0

\* the exported row of an agent whose name holds a comma was rejected by
\* the import
C30_QuotedNameRejected ==
  /\ RoundTripEnded
  /\ pc = "done"
  /\ \E k \in 1..Len(exported) : exported[k].name = "Smith, John"
  /\ errorCount > 0
  /\ \A k \in 1..Len(calls) : calls[k].name # "Smith, John"

\* an agent whose addedToday is not whole came back with another
\* addedToday
C30_FractionTruncated ==
  /\ RoundTripEnded
  /\ errorCount = 0
  /\ exported = <<CHOOSE a \in AgentPool : a.name = "Bob">>
  /\ calls[1].addedToday = Num(300)

\* what holds: the header check passes for every list, and a list of agents
\* whose names hold no comma and whose counts are whole comes back as it was
C30_RoundTripOfPlainAgents ==
  RoundTripEnded =>
    /\ pc = "done"
    /\ (\A k \in 1..Len(exported) : exported[k].name \in {"Alice", "Zed"})
         => (SameAgents(exported) /\ errorCount = 0)

\* two plain agents came back as they were
C30_PlainAgentsCameBack ==
  /\ RoundTripEnded
  /\ Len(exported) = 2
  /\ SameAgents(exported)
  /\ errorCount = 0

====
